---- MODULE Spec2Model ----
(***************************************************************************)
(* A model of the Broad backend API (pallavkumarjha/broad-be): the auth    *)
(* middleware, the phone OTP flow, the profile / ride / motorcycle routes  *)
(* with the services they call, and the response helpers.                  *)
(*                                                                         *)
(* One action is one HTTP request carried through the framework's          *)
(* lifecycle: body validation against the route's schema, then the         *)
(* preHandler hook, then the handler with every service call it makes.     *)
(* `req` and `resp` describe the request just handled and the reply sent.  *)
(*                                                                         *)
(* JavaScript objects whose key set matters (request bodies, API shaped    *)
(* objects, storage rows) are functions from key strings to values, read   *)
(* with Get, which yields Undefined for a missing key as a property read   *)
(* does.  Strings are TLA+ strings; slice/startsWith/substring are         *)
(* computed on them.                                                       *)
(*                                                                         *)
(* The managed database and the auth provider are modelled by the tables   *)
(* `profiles`, `rides`, `motorcycles` and by `authUsers` / `otps`, with    *)
(* the constraints and the trigger the repository's migrations declare.    *)
(***************************************************************************)
EXTENDS Integers, Sequences, FiniteSets, TLC

\* ------------------------------------------------------------------ bounds
MaxUsers == 2
MaxRides == 2
MaxBikes == 2
MaxGarages == 2
MaxInt == 3
MaxRequests == 2

UserIds == 1..MaxUsers
RideIds == 1..MaxRides
BikeIds == 1..MaxBikes
GarageIds == 1..MaxGarages
Slots == 1..MaxRequests

\* ------------------------------------------------------- JavaScript values
Undefined == "undefined"
Null == "null"
\* null / undefined where an object is expected (a row, a user, an error)
Nil == [nil |-> TRUE]
NoRow == Nil
NoUser == Nil
NoBody == Nil
NoReply == [status |-> 0]

Get(obj, key) == IF key \in DOMAIN obj THEN obj[key] ELSE Undefined

StartsWith(s, prefix) ==
  /\ Len(s) >= Len(prefix)
  /\ SubSeq(s, 1, Len(prefix)) = prefix

Substring(s, from) == SubSeq(s, from + 1, Len(s))

SliceLast(s, n) == IF Len(s) <= n THEN s ELSE SubSeq(s, Len(s) - n + 1, Len(s))

\* ------------------------------------------------------------------- state
VARIABLES authUsers, otps, profiles, rides, garages, motorcycles, req, resp, calls,
          inflight, app

vars == <<authUsers, otps, profiles, rides, garages, motorcycles, req, resp, calls, inflight, app>>

\* --------------------------------------------------------- response helpers
successResponse(data) == [success |-> TRUE, data |-> data]

errorResponse(code, message) ==
  [success |-> FALSE, error |-> [code |-> code, message |-> message]]

createPaginationMeta_wrongCompare(page, limit, total) ==
  [page |-> page, limit |-> limit, total |-> total, hasMore |-> page * limit <= total]

createPaginationMeta(page, limit, total) ==
  [page |-> page, limit |-> limit, total |-> total, hasMore |-> page * limit < total]

NOT_FOUND(resource) == errorResponse("NOT_FOUND", resource \o " not found")
UNAUTHORIZED == errorResponse("UNAUTHORIZED", "Authentication required")
FORBIDDEN == errorResponse("FORBIDDEN", "Insufficient permissions")
CONFLICT(message) == errorResponse("CONFLICT", message)
INTERNAL_ERROR == errorResponse("INTERNAL_ERROR", "Internal server error")
BAD_REQUEST(message) == errorResponse("BAD_REQUEST", message)

Reply(status, body) == [status |-> status, body |-> body]

IsError(r, status, code) ==
  /\ r.status = status
  /\ r.body # NoBody
  /\ ~r.body.success
  /\ r.body.error.code = code

IsSuccess(r, status) ==
  /\ r.status = status
  /\ r.body # NoBody
  /\ r.body.success

\* ------------------------------------------------ storage: table `profiles`
Roles == {"rider", "moderator", "admin"}

\* The columns latitude and longitude are only written together: `latitude`
\* holds the pair <<latitude, longitude>>, and NoLocation while both are null.
NoLocation == <<>>

ProfileRow(id, display_name, phone_number, role) ==
  [id |-> id, display_name |-> display_name, phone_number |-> phone_number,
   handle |-> Null, role |-> role, latitude |-> NoLocation, is_available |-> FALSE]

\* .from('profiles').select(..).eq('id', id).single(): an error (code
\* PGRST116) when no row matches, the row otherwise.
selectProfileSingle(id) ==
  IF id \in DOMAIN profiles /\ profiles[id] # NoRow
  THEN [error |-> Nil, data |-> profiles[id]]
  ELSE [error |-> [code |-> "PGRST116", message |-> "no rows"], data |-> Nil]

\* ------------------------------------------------------------ auth provider
TokenOf(u) == "jwt-" \o ToString(u)

Tokens == {TokenOf(u) : u \in UserIds} \cup {"expired"}

Headers == {"", "Bearer", "Basic abc"} \cup {"Bearer " \o t : t \in Tokens}

Faults == {"none", "getUser_error", "getUser_throws", "profiles_error",
           "profiles_throws"}

\* supabase.auth.getUser(token): the identity the token was issued to, or an
\* error when the provider rejects the token.
getUser(token, fault) ==
  LET owners == {u \in UserIds : /\ TokenOf(u) = token
                                 /\ authUsers[u] # NoRow
                                 /\ authUsers[u].session}
  IN IF fault = "getUser_error" \/ owners = {}
     THEN [user |-> Nil, error |-> [message |-> "invalid JWT"]]
     ELSE LET u == CHOOSE x \in owners : TRUE
          IN [user |-> [id |-> u, email |-> authUsers[u].email,
                        phone |-> authUsers[u].phone],
              error |-> Nil]

\* ---------------------------------------------------------- auth middleware
Falsy(v) == v \in {Null, Undefined, ""}

Hook(reply, user) == [reply |-> reply, user |-> user]

authenticateUser_attachBeforeProfile(authHeader, fault) ==
  IF Falsy(authHeader) \/ ~StartsWith(authHeader, "Bearer ")
  THEN Hook(Reply(401, errorResponse("UNAUTHORIZED",
                  "Missing or invalid authorization header")), NoUser)
  ELSE IF fault = "getUser_throws"
  THEN Hook(Reply(500, errorResponse("AUTH_ERROR", "Authentication failed")), NoUser)
  ELSE LET got == getUser(Substring(authHeader, 7), fault)
       IN IF got.error # Nil \/ got.user = Nil
          THEN Hook(Reply(401, errorResponse("UNAUTHORIZED",
                          "Invalid or expired token")), NoUser)
          ELSE LET q == selectProfileSingle(got.user.id)
                   attached == [id |-> got.user.id, email |-> got.user.email,
                                role |-> IF q.data = Nil \/ Falsy(q.data.role)
                                         THEN "rider" ELSE q.data.role]
               IN IF fault = "profiles_throws"
                  THEN Hook(Reply(500, errorResponse("AUTH_ERROR",
                                  "Authentication failed")), attached)
                  ELSE IF fault = "profiles_error" \/ q.error # Nil
                  THEN Hook(Reply(404, errorResponse("PROFILE_NOT_FOUND",
                                  "User profile not found")), attached)
                  ELSE Hook(NoReply, attached)

authenticateUser(authHeader, fault) ==
  IF Falsy(authHeader) \/ ~StartsWith(authHeader, "Bearer ")
  THEN Hook(Reply(401, errorResponse("UNAUTHORIZED",
                  "Missing or invalid authorization header")), NoUser)
  ELSE IF fault = "getUser_throws"
  THEN Hook(Reply(500, errorResponse("AUTH_ERROR", "Authentication failed")), NoUser)
  ELSE LET got == getUser(Substring(authHeader, 7), fault)
       IN IF got.error # Nil \/ got.user = Nil
          THEN Hook(Reply(401, errorResponse("UNAUTHORIZED",
                          "Invalid or expired token")), NoUser)
          ELSE IF fault = "profiles_throws"
          THEN Hook(Reply(500, errorResponse("AUTH_ERROR",
                          "Authentication failed")), NoUser)
          ELSE LET q == selectProfileSingle(got.user.id)
               IN IF fault = "profiles_error" \/ q.error # Nil
                  THEN Hook(Reply(404, errorResponse("PROFILE_NOT_FOUND",
                                  "User profile not found")), NoUser)
                  ELSE Hook(NoReply,
                            [id |-> got.user.id, email |-> got.user.email,
                             role |-> IF Falsy(q.data.role) THEN "rider"
                                      ELSE q.data.role])

optionalAuth_rejects(authHeader, fault) ==
  LET a == authenticateUser(authHeader, fault)
  IN IF Falsy(authHeader) \/ ~StartsWith(authHeader, "Bearer ")
     THEN Hook(NoReply, NoUser)
     ELSE a

optionalAuth(authHeader, fault) ==
  IF Falsy(authHeader) \/ ~StartsWith(authHeader, "Bearer ")
  THEN Hook(NoReply, NoUser)
  ELSE IF fault = "getUser_throws"
  THEN Hook(NoReply, NoUser)
  ELSE LET got == getUser(Substring(authHeader, 7), fault)
       IN IF got.error # Nil \/ got.user = Nil
          THEN Hook(NoReply, NoUser)
          ELSE IF fault = "profiles_throws"
          THEN Hook(NoReply, NoUser)
          ELSE LET q == selectProfileSingle(got.user.id)
                   profile == IF fault = "profiles_error" THEN Nil ELSE q.data
               IN IF profile # Nil
                  THEN Hook(NoReply,
                            [id |-> got.user.id, email |-> got.user.email,
                             role |-> IF Falsy(profile.role) THEN "rider"
                                      ELSE profile.role])
                  ELSE Hook(NoReply, NoUser)

requireRole_noRoleCheck(allowedRoles, user) ==
  IF user = NoUser
  THEN Hook(Reply(401, errorResponse("UNAUTHORIZED", "Authentication required")), user)
  ELSE Hook(NoReply, user)

requireRole(allowedRoles, user) ==
  IF user = NoUser
  THEN Hook(Reply(401, errorResponse("UNAUTHORIZED", "Authentication required")), user)
  ELSE IF user.role \notin allowedRoles
  THEN Hook(Reply(403, errorResponse("FORBIDDEN", "Insufficient permissions")), user)
  ELSE Hook(NoReply, user)

\* What authenticateUser can do with a request, over every authorization
\* header and every outcome of the provider and storage calls.
RequiredAuth == {authenticateUser(h, f) : h \in Headers, f \in Faults}

\* The same with every provider and storage call of the hook going through
\* (their failures are replies of the hook alone, explored by SpecMiddleware).
RouteAuth == {authenticateUser(h, "none") : h \in Headers}

requireAdmin(user) == requireRole({"admin"}, user)
requireModerator(user) == requireRole({"moderator", "admin"}, user)

\* --------------------------------- storage: tables `garages`, `motorcycles`
\* The instant a request is handled (new Date().toISOString()); one value
\* stands for every instant, since no operation compares two instants.
Now == "2026-01-01T00:00:00.000Z"

NoId == 0

GarageRow(id, owner_id) ==
  [id |-> id, owner_id |-> owner_id, label |-> "Main Garage", primary_bike_id |-> NoId]

MotorcycleRow(id, garage_id, odometer_km, deleted_at) ==
  [id |-> id, garage_id |-> garage_id, odometer_km |-> odometer_km,
   deleted_at |-> deleted_at]

\* A query result {data, error}; a service method throws on error.
Ok(data) == [error |-> Nil, data |-> data]
Err(message) == [error |-> [message |-> message], data |-> Nil]

\* The row after an update or insert payload is applied: columns named in
\* the payload take its values, keys that are no column are dropped.
ApplyPatch(row, patch) ==
  [k \in DOMAIN row |-> IF k \in DOMAIN patch THEN patch[k] ELSE row[k]]

\* Rows of `motorcycles` an unfiltered query by id finds.
motorcycleRowsById(id) ==
  {b \in BikeIds : motorcycles[b] # NoRow /\ motorcycles[b].id = id}

activeOnly_noFilter(b) == TRUE

\* .is('deleted_at', null)
activeOnly(b) == motorcycles[b].deleted_at = Null

\* MotorcycleService.getMotorcycleById: .eq('id', id).is('deleted_at',
\* null).single()
getMotorcycleById(id) ==
  LET found == {b \in motorcycleRowsById(id) : activeOnly(b)}
  IN IF Cardinality(found) = 1
     THEN Ok(motorcycles[CHOOSE b \in found : TRUE])
     ELSE Err("Failed to get motorcycle")

\* MotorcycleService.getMotorcyclesByGarage: the rows of the garage with a
\* null deleted_at (as a set: the order by created_at is left out).
getMotorcyclesByGarage(garageId) ==
  Ok({motorcycles[b] : b \in {x \in BikeIds : /\ motorcycles[x] # NoRow
                                              /\ motorcycles[x].garage_id = garageId
                                              /\ activeOnly(x)}})

\* .update(payload).eq('id', id).select().single() on `motorcycles`: an
\* error when no row has the id, otherwise the updated table and row.
updateMotorcycleRow(id, payload, message) ==
  IF motorcycleRowsById(id) = {}
  THEN [error |-> [message |-> message], data |-> Nil, table |-> motorcycles]
  ELSE LET b == CHOOSE x \in motorcycleRowsById(id) : TRUE
           row == ApplyPatch(motorcycles[b], payload)
       IN IF row.garage_id \notin GarageIds \/ garages[row.garage_id] = NoRow
          THEN [error |-> [message |-> message], data |-> Nil, table |-> motorcycles]
          ELSE [error |-> Nil, data |-> row,
                table |-> [motorcycles EXCEPT ![b] = row]]

updateMotorcycle(id, updateData) ==
  updateMotorcycleRow(id, updateData, "Failed to update motorcycle")

updateOdometer(id, odometerKm) ==
  updateMotorcycleRow(id, [odometer_km |-> odometerKm], "Failed to update odometer")

softDeleteMotorcycle_hardDelete(id) ==
  IF motorcycleRowsById(id) = {}
  THEN [error |-> [message |-> "Failed to delete motorcycle"], data |-> Nil,
        table |-> motorcycles]
  ELSE LET b == CHOOSE x \in motorcycleRowsById(id) : TRUE
       IN [error |-> Nil, data |-> motorcycles[b],
           table |-> [motorcycles EXCEPT ![b] = NoRow]]

softDeleteMotorcycle(id) ==
  updateMotorcycleRow(id, [deleted_at |-> Now], "Failed to delete motorcycle")

\* MotorcycleService.createMotorcycle: .insert(payload).select().single();
\* the id is generated, garage_id must name a garage.
createMotorcycle(newId, motorcycleData) ==
  LET row == ApplyPatch(MotorcycleRow(newId, NoId, 0, Null), motorcycleData)
  IN IF row.garage_id \notin GarageIds \/ garages[row.garage_id] = NoRow
        \/ row.id \notin BikeIds \/ motorcycles[row.id] # NoRow
     THEN [error |-> [message |-> "Failed to create motorcycle"], data |-> Nil,
           table |-> motorcycles]
     ELSE [error |-> Nil, data |-> row,
           table |-> [motorcycles EXCEPT ![row.id] = row]]

\* ------------------------------------------------------------ initial states
\* The phone number the provider holds for identity u, and the placeholder
\* display name generated from a phone number.
PhoneFor(u) == "+1555010020" \o ToString(u)

Phones == {PhoneFor(u) : u \in UserIds}

PlaceholderName(phone) == "User " \o SliceLast(phone, 4)

\* An identity of the auth provider.  `session` tells whether the provider
\* has issued it a session (an access token) yet.
NewIdentity(phone) == [phone |-> phone, email |-> "", session |-> FALSE]

Identity(u) == [NewIdentity(PhoneFor(u)) EXCEPT !.session = TRUE]

NoRequest == [kind |-> "none"]

\* The requests being handled concurrently, one per slot; none at the start.
Idle == [pc |-> "idle"]

NoneInFlight == [s \in Slots |-> Idle]

\* The module variable `app` of the serverless entry point: the server it
\* holds (NoId while undefined), how many servers the process has built so
\* far, and which of them have finished ready().
NoApp == [handle |-> NoId, built |-> NoId, ready |-> {}]

\* Slots are taken in order.
FreeSlots ==
  LET free == {s \in Slots : inflight[s] = Idle}
  IN {s \in free : \A t \in free : s <= t}

EmptyDb ==
  /\ authUsers = [u \in UserIds |-> Nil]
  /\ otps = {}
  /\ profiles = [u \in UserIds |-> NoRow]
  /\ rides = [r \in RideIds |-> NoRow]
  /\ garages = [g \in GarageIds |-> NoRow]
  /\ motorcycles = [b \in BikeIds |-> NoRow]

\* ------------------------------------------- the preHandler hooks on their own
\* A request is received and carried through a preHandler chain; a hook runs
\* only while no reply has been sent.
Receive(h) ==
  /\ req' = [kind |-> "request", authorization |-> h, fault |-> "none",
             user |-> NoUser, ran |-> <<>>, allowed |-> {}]
  /\ resp' = NoReply
  /\ UNCHANGED <<authUsers, otps, profiles, rides, garages, motorcycles, calls, inflight, app>>

RunAuthenticateUser(f) ==
  /\ req.kind = "request" /\ req.ran = <<>> /\ resp = NoReply
  /\ LET h == authenticateUser(req.authorization, f)
     IN /\ req' = [req EXCEPT !.user = h.user, !.fault = f,
                              !.ran = <<"authenticateUser">>]
        /\ resp' = h.reply
  /\ UNCHANGED <<authUsers, otps, profiles, rides, garages, motorcycles, calls, inflight, app>>

RunOptionalAuth(f) ==
  /\ req.kind = "request" /\ req.ran = <<>> /\ resp = NoReply
  /\ LET h == optionalAuth(req.authorization, f)
     IN /\ req' = [req EXCEPT !.user = h.user, !.fault = f,
                              !.ran = <<"optionalAuth">>]
        /\ resp' = h.reply
  /\ UNCHANGED <<authUsers, otps, profiles, rides, garages, motorcycles, calls, inflight, app>>

RunRequireRole(allowedRoles) ==
  /\ req.kind = "request" /\ resp = NoReply
  /\ \A i \in 1..Len(req.ran) : req.ran[i] # "requireRole"
  /\ LET h == requireRole(allowedRoles, req.user)
     IN /\ req' = [req EXCEPT !.user = h.user, !.allowed = allowedRoles,
                              !.ran = Append(req.ran, "requireRole")]
        /\ resp' = h.reply
  /\ UNCHANGED <<authUsers, otps, profiles, rides, garages, motorcycles, calls, inflight, app>>

\* Any provider / profile-table contents: an identity with or without a
\* profile row (a profile row needs its identity: profiles.id references
\* auth.users), the role any value the column admits.
InitMiddleware ==
  /\ authUsers \in [UserIds -> {Nil} \cup {Identity(u) : u \in UserIds}]
  /\ \A u \in UserIds : authUsers[u] \in {Nil, Identity(u)}
  /\ profiles \in [UserIds -> {NoRow} \cup
        {ProfileRow(u, PlaceholderName(PhoneFor(u)), PhoneFor(u), r) :
           u \in UserIds, r \in Roles \cup {Null}}]
  /\ \A u \in UserIds :
       profiles[u] # NoRow => (profiles[u].id = u /\ authUsers[u] # Nil)
  /\ otps = {}
  /\ rides = [r \in RideIds |-> NoRow]
  /\ garages = [g \in GarageIds |-> NoRow]
  /\ motorcycles = [b \in BikeIds |-> NoRow]
  /\ req = NoRequest
  /\ resp = NoReply
  /\ calls = <<>>
  /\ inflight = NoneInFlight
  /\ app = NoApp

NextMiddleware ==
  \/ \E h \in Headers : Receive(h)
  \/ \E f \in Faults : RunAuthenticateUser(f)
  \/ \E f \in Faults : RunOptionalAuth(f)
  \/ \E allowedRoles \in SUBSET Roles : RunRequireRole(allowedRoles)

SpecMiddleware == InitMiddleware /\ [][NextMiddleware]_vars

\* ------------------------------------------------- garage routes: motorcycles
\* Registered without a body schema; the write routes run authenticateUser.
\* The handlers read only request.params and request.body, never request.user,
\* so a request is recorded by its route and its path parameter.
BikeRequest(kind, id) == [kind |-> kind, id |-> id]

\* What a handler replies after a service call: 500 when the service threw.
WriteReply(r, status, key) ==
  IF r.error # Nil THEN Reply(500, INTERNAL_ERROR)
  ELSE Reply(status, successResponse(key :> r.data))

GetMotorcycleRoute(id) ==
  LET r == getMotorcycleById(id)
  IN /\ req' = BikeRequest("GET /api/garages/motorcycles/:id", id)
     /\ resp' = WriteReply(r, 200, "motorcycle")
     /\ UNCHANGED <<authUsers, otps, profiles, rides, garages, motorcycles, calls, inflight, app>>

ListMotorcyclesRoute(garageId) ==
  LET r == getMotorcyclesByGarage(garageId)
  IN /\ req' = BikeRequest("GET /api/garages/:garageId/motorcycles", garageId)
     /\ resp' = WriteReply(r, 200, "motorcycles")
     /\ UNCHANGED <<authUsers, otps, profiles, rides, garages, motorcycles, calls, inflight, app>>

\* `hookReply` is what the preHandler authenticateUser sent, NoReply when it
\* let the request through to the handler.
BikeWrite(kind, hookReply, id, r, status) ==
  /\ req' = BikeRequest(kind, id)
  /\ IF hookReply # NoReply
     THEN resp' = hookReply /\ UNCHANGED motorcycles
     ELSE resp' = WriteReply(r, status, "motorcycle") /\ motorcycles' = r.table
  /\ UNCHANGED <<authUsers, otps, profiles, rides, garages, calls, inflight, app>>

\* Storage generates the id of a new row; ids are handed out in order.
FreshBikeIds ==
  LET free == {b \in BikeIds : motorcycles[b] = NoRow}
  IN {b \in free : \A c \in free : b <= c}

CreateMotorcycleRoute(hookReply, garageId, body) ==
  \E newId \in FreshBikeIds :
    BikeWrite("POST /api/garages/:garageId/motorcycles", hookReply, garageId,
              createMotorcycle(newId, [garage_id |-> garageId] @@ body), 201)

UpdateMotorcycleRoute(hookReply, id, body) ==
  BikeWrite("PUT /api/garages/motorcycles/:id", hookReply, id,
            updateMotorcycle(id, body), 200)

UpdateOdometerRoute(hookReply, id, body) ==
  BikeWrite("PATCH /api/garages/motorcycles/:id/odometer", hookReply, id,
            updateOdometer(id, body.odometer_km), 200)

SoftDeleteMotorcycleRoute(hookReply, id) ==
  BikeWrite("DELETE /api/garages/motorcycles/:id", hookReply, id,
            softDeleteMotorcycle(id), 200)

\* Request bodies tried on the motorcycle routes (the routes declare no
\* schema, so any JSON object reaches the service).
NewBikeBodies == {[odometer_km |-> 0]}

OdometerBodies == {[odometer_km |-> 1]}

BikeBodies ==
  OdometerBodies \cup {[deleted_at |-> Null]} \cup {[garage_id |-> g] : g \in GarageIds}

\* The replies authenticateUser can send, over every authorization header and
\* every outcome of the provider and storage calls.
RequiredAuthReplies == {a.reply : a \in RequiredAuth}

\* Every identity signed up (identity and profile row), one garage per garage
\* id, no motorcycle yet.
SignedUp(u) == ProfileRow(u, PlaceholderName(PhoneFor(u)), PhoneFor(u), "rider")

OwnerOf(g) == ((g - 1) % MaxUsers) + 1

InitGarage ==
  /\ authUsers = [u \in UserIds |-> Identity(u)]
  /\ otps = {}
  /\ profiles = [u \in UserIds |-> SignedUp(u)]
  /\ rides = [r \in RideIds |-> NoRow]
  /\ garages = [g \in GarageIds |-> GarageRow(g, OwnerOf(g))]
  /\ motorcycles = [b \in BikeIds |-> NoRow]
  /\ req = NoRequest
  /\ resp = NoReply
  /\ calls = <<>>
  /\ inflight = NoneInFlight
  /\ app = NoApp

NextGarage ==
  \/ \E id \in BikeIds : GetMotorcycleRoute(id)
  \/ \E g \in GarageIds : ListMotorcyclesRoute(g)
  \/ \E hookReply \in RequiredAuthReplies, g \in GarageIds, body \in NewBikeBodies :
        CreateMotorcycleRoute(hookReply, g, body)
  \/ \E hookReply \in RequiredAuthReplies, id \in BikeIds, body \in BikeBodies :
        UpdateMotorcycleRoute(hookReply, id, body)
  \/ \E hookReply \in RequiredAuthReplies, id \in BikeIds, body \in OdometerBodies :
        UpdateOdometerRoute(hookReply, id, body)
  \/ \E hookReply \in RequiredAuthReplies, id \in BikeIds :
        SoftDeleteMotorcycleRoute(hookReply, id)

SpecGarage == InitGarage /\ [][NextGarage]_vars

\* --------------------------------------------------- storage: table `rides`
RideStatuses == {"scheduled", "in_progress", "completed", "cancelled"}

StartsAt == "2026-06-01T08:00:00.000Z"

RideRow(id, creator_id, title, starts_at, status) ==
  [id |-> id, creator_id |-> creator_id, title |-> title, starts_at |-> starts_at,
   status |-> status, updated_at |-> Now]

\* The camelCase keys RideService renames, with the column each becomes.
RideFieldMap ==
  [startsAt |-> "starts_at", meetupLocation |-> "meetup_location",
   experienceLevel |-> "experience_level", maxRiders |-> "max_riders",
   routeSummary |-> "route_summary", dateISO |-> "date_iso",
   meetupISO |-> "meetup_iso", meetLocation |-> "meet_location",
   gearCallout |-> "gear_callout", commSignals |-> "comm_signals",
   safetyChecks |-> "safety_checks"]

\* mappedData of createRide / updateRide: the payload spread, each mapped
\* column assigned from its camelCase key (undefined, hence left out of the
\* JSON sent to storage, when the payload lacks that key), the camelCase
\* keys deleted.
mapRideData_keepsCamelCase(data) == data

mapRideData(data) ==
  LET camel == DOMAIN RideFieldMap
      snake == {RideFieldMap[c] : c \in camel}
      mapped == {RideFieldMap[c] : c \in camel \cap DOMAIN data}
      kept == DOMAIN data \ (camel \cup snake)
  IN [k \in kept \cup mapped |->
        IF k \in mapped
        THEN data[CHOOSE c \in camel \cap DOMAIN data : RideFieldMap[c] = k]
        ELSE data[k]]

\* The constraints of table rides: creator_id references a profile, title
\* and starts_at are not null, status is one of RideStatuses.
RideRowAccepted(row) ==
  /\ row.creator_id \in UserIds
  /\ profiles[row.creator_id] # NoRow
  /\ row.title \notin {Null, Undefined}
  /\ row.starts_at \notin {Null, Undefined}
  /\ row.status \in RideStatuses

\* RideService.getRideById: .eq('id', id).single(); throws when no row has
\* the id.
getRideById(id) ==
  IF id \in RideIds /\ rides[id] # NoRow
  THEN Ok(rides[id])
  ELSE Err("Failed to get ride")

\* .update(payload).eq('id', id).select().single() on `rides`; the trigger
\* update_rides_updated_at sets updated_at to now() before each update.
updateRideRow(id, payload, message) ==
  IF id \notin RideIds \/ rides[id] = NoRow
  THEN [error |-> [message |-> message], data |-> Nil, table |-> rides]
  ELSE LET row == [ApplyPatch(rides[id], payload) EXCEPT !.updated_at = Now]
       IN IF RideRowAccepted(row)
          THEN [error |-> Nil, data |-> row, table |-> [rides EXCEPT ![id] = row]]
          ELSE [error |-> [message |-> message], data |-> Nil, table |-> rides]

updateRide(id, updateData) ==
  updateRideRow(id, mapRideData(updateData), "Failed to update ride")

updateRideStatus(id, status) ==
  updateRideRow(id, [status |-> status], "Failed to update ride status")

cancelRide(id) ==
  updateRideRow(id, [status |-> "cancelled"], "Failed to cancel ride")

\* RideService.createRide: .insert(mappedData).select().single(); storage
\* generates the id and defaults status to 'scheduled'.
createRide(newId, rideData) ==
  LET row == ApplyPatch(RideRow(newId, NoId, Null, Null, "scheduled"),
                        mapRideData(rideData))
  IN IF RideRowAccepted(row)
     THEN [error |-> Nil, data |-> row, table |-> [rides EXCEPT ![newId] = row]]
     ELSE [error |-> [message |-> "Failed to create ride"], data |-> Nil,
           table |-> rides]

\* --------------------------------------------------------------- ride routes
\* The framework validates params and body against the route's schema
\* before it runs the preHandler hook; a failure goes to the server's error
\* handler, which replies with the validation error's status code 400.
ValidationError == Reply(400, errorResponse("ERROR", "body must match schema"))

\* type: 'string', minLength, maxLength
IsStringOfLength(v, min, max) == v # Undefined /\ Len(v) >= min /\ Len(v) <= max

\* Body schema of POST /api/rides: title and startsAt required.
ValidCreateRideBody(body) ==
  /\ {"title", "startsAt"} \subseteq DOMAIN body
  /\ IsStringOfLength(body.title, 1, 200)

\* Body schema of PATCH /api/rides/:id: nothing required, no
\* additionalProperties restriction.
ValidUpdateRideBody(body) ==
  /\ "title" \in DOMAIN body => IsStringOfLength(body.title, 1, 200)
  /\ "status" \in DOMAIN body => body.status \in RideStatuses

\* Body schema of PATCH /api/rides/:id/status.
ValidStatusBody(body) ==
  /\ "status" \in DOMAIN body
  /\ body.status \in {"planned", "active", "completed", "cancelled"}

\* request.user?.id
UserIdOf(user) == IF user = NoUser THEN NoId ELSE user.id

Handled(reply, table) == [reply |-> reply, table |-> table]

\* The check every ride write handler starts with: the ride is read, a
\* missing ride is a 404 (getRideById throws first: 500), a ride of another
\* creator a 403.  NoReply when the caller is the ride's creator.
rideOwnerCheck_skipped(user, id) ==
  LET existing == getRideById(id)
  IN IF existing.error # Nil THEN Reply(500, INTERNAL_ERROR)
     ELSE IF existing.data = Nil THEN Reply(404, NOT_FOUND("Ride"))
     ELSE NoReply

rideOwnerCheck(user, id) ==
  LET existing == getRideById(id)
  IN IF existing.error # Nil THEN Reply(500, INTERNAL_ERROR)
     ELSE IF existing.data = Nil THEN Reply(404, NOT_FOUND("Ride"))
     ELSE IF existing.data.creator_id # UserIdOf(user) THEN Reply(403, FORBIDDEN)
     ELSE NoReply

\* The end of a handler: the service's result in the envelope, 500 when the
\* service threw.
ServiceReply(r, status) ==
  IF r.error # Nil THEN Handled(Reply(500, INTERNAL_ERROR), rides)
  ELSE Handled(Reply(status, successResponse(r.data)), r.table)

\* Handler of POST /api/rides
createRideHandler(user, body, newId) ==
  IF UserIdOf(user) = NoId THEN Handled(Reply(401, UNAUTHORIZED), rides)
  ELSE ServiceReply(createRide(newId, [creator_id |-> user.id] @@ body), 201)

\* Handler of PATCH /api/rides/:id
updateRideHandler(user, id, body) ==
  LET denied == rideOwnerCheck(user, id)
  IN IF denied # NoReply THEN Handled(denied, rides)
     ELSE ServiceReply(updateRide(id, body), 200)

\* Handler of PATCH /api/rides/:id/status
updateRideStatusHandler(user, id, body) ==
  LET denied == rideOwnerCheck(user, id)
  IN IF denied # NoReply THEN Handled(denied, rides)
     ELSE ServiceReply(updateRideStatus(id, body.status), 200)

cancelRideHandler_noStatusCheck(user, id) ==
  LET denied == rideOwnerCheck(user, id)
  IN IF denied # NoReply THEN Handled(denied, rides)
     ELSE ServiceReply(cancelRide(id), 200)

\* Handler of PATCH /api/rides/:id/cancel
cancelRideHandler(user, id) ==
  LET denied == rideOwnerCheck(user, id)
  IN IF denied # NoReply THEN Handled(denied, rides)
     ELSE IF rides[id].status \in {"completed", "cancelled"}
     THEN Handled(Reply(400, BAD_REQUEST(
                    "Cannot cancel completed or already cancelled ride")), rides)
     ELSE ServiceReply(cancelRide(id), 200)

\* A request to a ride route.  `caller` is the user the request's bearer
\* token resolves to (what authenticateUser attaches), NoUser when the hook
\* rejects the credentials.
RideRequest(kind, caller, id, body) ==
  [kind |-> kind, caller |-> caller, id |-> id, body |-> body]

\* One request through a ride write route: schema validation, then the
\* preHandler authenticateUser (outcome `a`), then the handler (outcome `h`).
RideWrite(kind, a, id, body, valid, h) ==
  /\ req' = RideRequest(kind, a.user, id, body)
  /\ IF ~valid THEN resp' = ValidationError /\ UNCHANGED rides
     ELSE IF a.reply # NoReply THEN resp' = a.reply /\ UNCHANGED rides
     ELSE resp' = h.reply /\ rides' = h.table
  /\ UNCHANGED <<authUsers, otps, profiles, garages, motorcycles, calls, inflight, app>>

\* Storage generates the id of a new ride; ids are handed out in order.
FreshRideIds ==
  LET free == {r \in RideIds : rides[r] = NoRow}
  IN {r \in free : \A c \in free : r <= c}

CreateRideRoute(a, body) ==
  \E newId \in FreshRideIds :
    RideWrite("POST /api/rides", a, NoId, body, ValidCreateRideBody(body),
              createRideHandler(a.user, body, newId))

UpdateRideRoute(a, id, body) ==
  RideWrite("PATCH /api/rides/:id", a, id, body, ValidUpdateRideBody(body),
            updateRideHandler(a.user, id, body))

UpdateRideStatusRoute(a, id, body) ==
  RideWrite("PATCH /api/rides/:id/status", a, id, body, ValidStatusBody(body),
            updateRideStatusHandler(a.user, id, body))

CancelRideRoute(a, id) ==
  RideWrite("PATCH /api/rides/:id/cancel", a, id, NoBody, TRUE,
            cancelRideHandler(a.user, id))

\* Handlers of PATCH /api/rides/:id/complete and POST /api/rides/:id/book:
\* each is, statement for statement, the handler of /:id/cancel (owner check,
\* status check, rideService.cancelRide).
completeRideHandler(user, id) == cancelRideHandler(user, id)

bookRideHandler(user, id) == cancelRideHandler(user, id)

CompleteRideRoute(a, id) ==
  RideWrite("PATCH /api/rides/:id/complete", a, id, NoBody, TRUE,
            completeRideHandler(a.user, id))

BookRideRoute(a, id) ==
  RideWrite("POST /api/rides/:id/book", a, id, NoBody, TRUE,
            bookRideHandler(a.user, id))

\* GET /api/rides/:id: optionalAuth never replies and the handler does not
\* read request.user.
GetRideRoute(id) ==
  LET r == getRideById(id)
  IN /\ req' = RideRequest("GET /api/rides/:id", NoUser, id, NoBody)
     /\ resp' = IF r.error # Nil THEN Reply(500, INTERNAL_ERROR)
                ELSE IF r.data = Nil THEN Reply(404, NOT_FOUND("Ride"))
                ELSE Reply(200, successResponse(r.data))
     /\ UNCHANGED <<authUsers, otps, profiles, rides, garages, motorcycles, calls, inflight, app>>

\* Request bodies tried on the ride routes.
Title == "Dawn run"

CreateRideBodies == {[title |-> Title, startsAt |-> StartsAt], [title |-> Title]}

UpdateRideBodies ==
  {[title |-> Title], [title |-> ""], [status |-> "completed"], [status |-> "done"]}

StatusBodies == {[status |-> "completed"], [status |-> "planned"], [status |-> "scheduled"]}

\* Every identity signed up, no ride yet.
InitRides ==
  /\ authUsers = [u \in UserIds |-> Identity(u)]
  /\ otps = {}
  /\ profiles = [u \in UserIds |-> SignedUp(u)]
  /\ rides = [r \in RideIds |-> NoRow]
  /\ garages = [g \in GarageIds |-> NoRow]
  /\ motorcycles = [b \in BikeIds |-> NoRow]
  /\ req = NoRequest
  /\ resp = NoReply
  /\ calls = <<>>
  /\ inflight = NoneInFlight
  /\ app = NoApp

NextRides ==
  \/ \E id \in RideIds : GetRideRoute(id)
  \/ \E a \in RouteAuth, body \in CreateRideBodies : CreateRideRoute(a, body)
  \/ \E a \in RouteAuth, id \in RideIds, body \in UpdateRideBodies :
        UpdateRideRoute(a, id, body)
  \/ \E a \in RouteAuth, id \in RideIds, body \in StatusBodies :
        UpdateRideStatusRoute(a, id, body)
  \/ \E a \in RouteAuth, id \in RideIds : CancelRideRoute(a, id)

SpecRides == InitRides /\ [][NextRides]_vars

\* Rides are created, updated, completed and booked.  The bodies name
\* creator_id as well: the body schemas do not set additionalProperties, so
\* a property they do not list reaches the handler.
CreatorBodies == {[creator_id |-> u] : u \in UserIds}

NextRideLifecycle ==
  \/ \E a \in RouteAuth, body \in CreateRideBodies \cup
          {[title |-> Title, startsAt |-> StartsAt] @@ c : c \in CreatorBodies} :
        CreateRideRoute(a, body)
  \/ \E a \in RouteAuth, id \in RideIds,
          body \in {[status |-> "in_progress"]} \cup CreatorBodies :
        UpdateRideRoute(a, id, body)
  \/ \E a \in RouteAuth, id \in RideIds : CompleteRideRoute(a, id)
  \/ \E a \in RouteAuth, id \in RideIds : BookRideRoute(a, id)

SpecRideLifecycle == InitRides /\ [][NextRideLifecycle]_vars

\* ------------------------------------------- RideService.updateRide on its own
\* Any stored rides, each last written now or at an earlier instant, and any
\* payload handed to updateRide.
Earlier == "2025-12-31T00:00:00.000Z"

Later == "2026-07-01T08:00:00.000Z"

StoredRides(r) ==
  {[RideRow(r, u, Title, StartsAt, st) EXCEPT !.updated_at = at] :
     u \in UserIds, st \in {"scheduled"}, at \in {Earlier, Now}}

PatchPayloads ==
  {[title |-> "Night run"], [startsAt |-> Later], [starts_at |-> Later],
   [title |-> "Night run", startsAt |-> Later], [status |-> "in_progress"]}

InitRidePatch ==
  /\ authUsers = [u \in UserIds |-> Identity(u)]
  /\ otps = {}
  /\ profiles = [u \in UserIds |-> SignedUp(u)]
  /\ rides \in [RideIds -> {NoRow} \cup UNION {StoredRides(r) : r \in RideIds}]
  /\ \A r \in RideIds : rides[r] # NoRow => rides[r].id = r
  /\ garages = [g \in GarageIds |-> NoRow]
  /\ motorcycles = [b \in BikeIds |-> NoRow]
  /\ req = NoRequest
  /\ resp = NoReply
  /\ calls = <<>>
  /\ inflight = NoneInFlight
  /\ app = NoApp

\* rideService.updateRide(id, updateData) is called; `resp` holds what it
\* returns (data) or throws (error).
UpdateRideCall(id, updateData) ==
  LET r == updateRide(id, updateData)
  IN /\ req' = [kind |-> "RideService.updateRide", id |-> id, body |-> updateData]
     /\ resp' = [error |-> r.error, data |-> r.data]
     /\ rides' = r.table
     /\ UNCHANGED <<authUsers, otps, profiles, garages, motorcycles, calls, inflight, app>>

NextRidePatch == \E id \in RideIds, updateData \in PatchPayloads : UpdateRideCall(id, updateData)

SpecRidePatch == InitRidePatch /\ [][NextRidePatch]_vars

\* ------------------------------------------------------------ garage routes
\* Constraints of table `garages`: owner_id references profiles, and
\* unique(owner_id, label).
GarageRowAccepted(row) ==
  /\ row.owner_id \in UserIds
  /\ profiles[row.owner_id] # NoRow
  /\ \A g \in GarageIds \ {row.id} :
        \/ garages[g] = NoRow
        \/ <<garages[g].owner_id, garages[g].label>> # <<row.owner_id, row.label>>

\* GarageService.getGarageById: .eq('id', id).single(); throws when no row
\* has the id.
getGarageById(id) ==
  IF id \in GarageIds /\ garages[id] # NoRow
  THEN Ok(garages[id])
  ELSE Err("Failed to get garage")

\* GarageService.updateGarage: .update(updateData).eq('id', id).select().single()
updateGarage(id, updateData) ==
  IF id \notin GarageIds \/ garages[id] = NoRow
  THEN Err("Failed to update garage") @@ [table |-> garages]
  ELSE LET row == ApplyPatch(garages[id], updateData)
       IN IF GarageRowAccepted(row)
          THEN Ok(row) @@ [table |-> [garages EXCEPT ![id] = row]]
          ELSE Err("Failed to update garage") @@ [table |-> garages]

\* GarageService.deleteGarage: .delete().eq('id', id); the motorcycles of the
\* garage go with it (on delete cascade), and a primary_bike_id that names
\* one of them becomes null (on delete set null).
deleteGarage(id) ==
  LET gone == {b \in BikeIds : motorcycles[b] # NoRow /\ motorcycles[b].garage_id = id}
  IN [error |-> Nil,
      table |-> [g \in GarageIds |->
                   IF g = id \/ garages[g] = NoRow THEN NoRow
                   ELSE IF garages[g].primary_bike_id \in gone
                   THEN [garages[g] EXCEPT !.primary_bike_id = NoId]
                   ELSE garages[g]],
      bikes |-> [b \in BikeIds |-> IF b \in gone THEN NoRow ELSE motorcycles[b]]]

\* A request to a garage route.  `caller` is the id of request.user (NoId
\* when the route runs no hook or the hook replied).
GarageRequest(kind, caller, id, body) ==
  [kind |-> kind, caller |-> caller, id |-> id, body |-> body]

\* GET /api/garages/:id
GetGarageRoute(id) ==
  LET r == getGarageById(id)
  IN /\ req' = GarageRequest("GET /api/garages/:id", NoId, id, NoBody)
     /\ resp' = IF r.error # Nil THEN Reply(500, INTERNAL_ERROR)
                ELSE IF r.data = Nil THEN Reply(404, NOT_FOUND("Garage"))
                ELSE Reply(200, successResponse([garage |-> r.data]))
     /\ UNCHANGED <<authUsers, otps, profiles, rides, garages, motorcycles, calls, inflight, app>>

\* A helper of CommonErrors handed to reply.send() without being called.
Uncalled(helper) == [function |-> helper]

\* GET /garages/:id of the first version of garageRoutes: the garage is
\* returned as it is, and the error helpers are sent uncalled.
GetGarageRouteV1(id) ==
  LET r == getGarageById(id)
  IN /\ req' = GarageRequest("GET /garages/:id", NoId, id, NoBody)
     /\ resp' = IF r.error # Nil THEN Reply(500, Uncalled("CommonErrors.INTERNAL_ERROR"))
                ELSE IF r.data = Nil THEN Reply(404, Uncalled("CommonErrors.NOT_FOUND"))
                ELSE Reply(200, [garage |-> r.data])
     /\ UNCHANGED <<authUsers, otps, profiles, rides, garages, motorcycles, calls, inflight, app>>

\* PUT /api/garages/:id: authenticateUser, then updateGarage(id, body).
UpdateGarageRoute(a, id, body) ==
  LET r == updateGarage(id, body)
  IN /\ req' = GarageRequest("PUT /api/garages/:id", UserIdOf(a.user), id, body)
     /\ IF a.reply # NoReply THEN resp' = a.reply /\ UNCHANGED garages
        ELSE IF r.error # Nil
        THEN resp' = Reply(500, INTERNAL_ERROR) /\ UNCHANGED garages
        ELSE resp' = Reply(200, successResponse([garage |-> r.data])) /\ garages' = r.table
     /\ UNCHANGED <<authUsers, otps, profiles, rides, motorcycles, calls, inflight, app>>

\* DELETE /api/garages/:id: authenticateUser, then deleteGarage(id); 204
\* without a body.
DeleteGarageRoute(a, id) ==
  LET r == deleteGarage(id)
  IN /\ req' = GarageRequest("DELETE /api/garages/:id", UserIdOf(a.user), id, NoBody)
     /\ IF a.reply # NoReply
        THEN resp' = a.reply /\ UNCHANGED <<garages, motorcycles>>
        ELSE resp' = Reply(204, NoBody) /\ garages' = r.table /\ motorcycles' = r.bikes
     /\ UNCHANGED <<authUsers, otps, profiles, rides, calls, inflight, app>>

\* Request bodies tried on PUT /api/garages/:id (the route declares no schema).
GarageLabel == "Track bikes"

GarageBodies == {[label |-> GarageLabel]} \cup {[owner_id |-> u] : u \in UserIds}

NextGarageAccess ==
  \/ \E id \in GarageIds : GetGarageRoute(id)
  \/ \E id \in GarageIds : GetGarageRouteV1(id)
  \/ \E a \in RouteAuth, id \in GarageIds, body \in GarageBodies :
        UpdateGarageRoute(a, id, body)
  \/ \E a \in RouteAuth, id \in GarageIds : DeleteGarageRoute(a, id)

SpecGarageAccess == InitGarage /\ [][NextGarageAccess]_vars

\* --------------------------------------- garage dashboard and primary bike
\* GarageService.setPrimaryBike: .update({primary_bike_id}).eq('id',
\* garageId).select('*').single(); primary_bike_id references motorcycles(id)
\* (null is NoId).
setPrimaryBike(garageId, motorcycleId) ==
  IF \/ garageId \notin GarageIds
     \/ garages[garageId] = NoRow
     \/ /\ motorcycleId # NoId
        /\ (motorcycleId \notin BikeIds \/ motorcycles[motorcycleId] = NoRow)
  THEN Err("Failed to set primary bike") @@ [table |-> garages]
  ELSE LET row == [garages[garageId] EXCEPT !.primary_bike_id = motorcycleId]
       IN Ok(row) @@ [table |-> [garages EXCEPT ![garageId] = row]]

\* PATCH /api/garages/:id/primary-bike: authenticateUser (`hookReply` is what
\* it sent, NoReply when it let the request through), then
\* setPrimaryBike(id, body.motorcycleId); the handler never reads request.user.
SetPrimaryBikeRoute(hookReply, id, body) ==
  LET r == setPrimaryBike(id, body.motorcycleId)
  IN /\ req' = GarageRequest("PATCH /api/garages/:id/primary-bike", NoId, id, body)
     /\ IF hookReply # NoReply THEN resp' = hookReply /\ UNCHANGED garages
        ELSE IF r.error # Nil
        THEN resp' = Reply(500, INTERNAL_ERROR) /\ UNCHANGED garages
        ELSE resp' = Reply(200, successResponse([garage |-> r.data])) /\ garages' = r.table
     /\ UNCHANGED <<authUsers, otps, profiles, rides, motorcycles, calls, inflight, app>>

\* Table `maintenance_logs`, written by no route: one log per motorcycle row
\* (the rows go with their motorcycle, on delete cascade).
maintenance_logs ==
  {[id |-> b, motorcycle_id |-> b, title |-> "Oil change",
    performed_at |-> "2026-01-01", summary |-> Null] :
     b \in {x \in BikeIds : motorcycles[x] # NoRow}}

\* A read of getDashboard under way, and how a storage read can end.
Pending == [pending |-> TRUE]

ReadFaults == {"none", "error"}

\* supabase.from('garages').select('*').eq('id', garageId).single()
dashboardGarageRead(garageId, fault) ==
  IF fault = "error" THEN Err("connection lost")
  ELSE IF garageId \in GarageIds /\ garages[garageId] # NoRow THEN Ok(garages[garageId])
  ELSE Err("JSON object requested, multiple (or no) rows returned")

\* supabase.from('motorcycles').select('*').eq('garage_id', garageId)
\*   .is('deleted_at', null)
dashboardBikesRead(garageId, fault) ==
  IF fault = "error" THEN Err("connection lost") ELSE getMotorcyclesByGarage(garageId)

\* supabase.from('maintenance_logs').select('*').eq('motorcycle_id', primaryId),
\* mapped to {id, title, date, summary}.
dashboardLogsRead(primaryId, fault) ==
  IF fault = "error" THEN Err("connection lost")
  ELSE Ok({[id |-> l.id, title |-> l.title, date |-> l.performed_at,
            summary |-> l.summary] : l \in {x \in maintenance_logs :
                                              x.motorcycle_id = primaryId}})

\* getDashboard after Promise.all of the two reads: the message of the Error
\* it throws, Nil when it goes on.
getDashboardThrows_ignoresBikesError(g, m) ==
  IF g.error # Nil THEN [message |-> "Failed to load garage"] ELSE Nil

getDashboardThrows(g, m) ==
  IF g.error # Nil THEN [message |-> "Failed to load garage"]
  ELSE IF m.error # Nil THEN [message |-> "Failed to load motorcycles"]
  ELSE Nil

\* The object getDashboard returns (backup bike and notes are columns the
\* model leaves out; no route of the model writes tasks or documents).
dashboardOf(r, serviceHistory) ==
  [garageId |-> r.id,
   primaryBikeId |-> r.garage.data.primary_bike_id,
   motorcycles |-> IF r.bikes.error # Nil THEN {} ELSE r.bikes.data,
   serviceHistory |-> serviceHistory,
   upcomingTasks |-> {},
   documents |-> {}]

\* The request in a slot: the reads it has finished, in order, and those that
\* failed.  The slot is free again once the reply is sent.
DashboardReads(id) ==
  [pc |-> "reads", id |-> id, garage |-> Pending, bikes |-> Pending,
   reads |-> <<>>, failed |-> {}, serviceHistory |-> {}]

\* The request as recorded when its reply is sent.
DashboardRequest(id, reads, failed) ==
  [kind |-> "GET /api/garages/:id/dashboard", id |-> id, reads |-> reads,
   failed |-> failed]

\* GET /api/garages/:id/dashboard: authenticateUser, then getDashboard starts
\* both reads of Promise.all.
DashboardArrives(s, hookReply, id) ==
  /\ s \in FreeSlots
  /\ req' = DashboardRequest(id, <<>>, {})
  /\ IF hookReply # NoReply
     THEN resp' = hookReply /\ UNCHANGED inflight
     ELSE resp' = NoReply /\ inflight' = [inflight EXCEPT ![s] = DashboardReads(id)]
  /\ UNCHANGED <<authUsers, otps, profiles, rides, garages, motorcycles, calls, app>>

\* One of the two reads is answered by storage.
DashboardGarageRead(s, fault) ==
  LET r == inflight[s]
      q == dashboardGarageRead(r.id, fault)
  IN /\ r.pc = "reads" /\ r.garage = Pending
     /\ inflight' = [inflight EXCEPT ![s] =
          [r EXCEPT !.garage = q, !.reads = Append(r.reads, "garages"),
                    !.failed = IF q.error # Nil THEN r.failed \cup {"garages"}
                               ELSE r.failed]]
     /\ UNCHANGED <<authUsers, otps, profiles, rides, garages, motorcycles, req, resp,
                    calls, app>>

DashboardBikesRead(s, fault) ==
  LET r == inflight[s]
      q == dashboardBikesRead(r.id, fault)
  IN /\ r.pc = "reads" /\ r.bikes = Pending
     /\ inflight' = [inflight EXCEPT ![s] =
          [r EXCEPT !.bikes = q, !.reads = Append(r.reads, "motorcycles"),
                    !.failed = IF q.error # Nil THEN r.failed \cup {"motorcycles"}
                               ELSE r.failed]]
     /\ UNCHANGED <<authUsers, otps, profiles, rides, garages, motorcycles, req, resp,
                    calls, app>>

\* The reply of the route when getDashboard has ended.
DashboardReplies(s, failed, reply) ==
  /\ inflight' = [inflight EXCEPT ![s] = Idle]
  /\ req' = DashboardRequest(inflight[s].id, inflight[s].reads,
                             inflight[s].failed \cup failed)
  /\ resp' = reply

\* Both reads are back: getDashboard throws on an error of either, else it
\* goes on to the maintenance logs of the primary bike, if there is one.
DashboardAfterReads(s) ==
  LET r == inflight[s]
      thrown == getDashboardThrows(r.garage, r.bikes)
  IN /\ r.pc = "reads" /\ r.garage # Pending /\ r.bikes # Pending
     /\ IF thrown # Nil
        THEN DashboardReplies(s, {}, Reply(500, INTERNAL_ERROR))
        ELSE /\ inflight' = [inflight EXCEPT ![s].pc =
                  IF r.garage.data.primary_bike_id # NoId THEN "logs" ELSE "lists"]
             /\ UNCHANGED <<req, resp>>
     /\ UNCHANGED <<authUsers, otps, profiles, rides, garages, motorcycles, calls, app>>

DashboardLogsRead(s, fault) ==
  LET r == inflight[s]
      q == dashboardLogsRead(r.garage.data.primary_bike_id, fault)
  IN /\ r.pc = "logs"
     /\ IF q.error # Nil
        THEN DashboardReplies(s, {"maintenance_logs"}, Reply(500, INTERNAL_ERROR))
        ELSE /\ inflight' = [inflight EXCEPT ![s].pc = "lists",
                                             ![s].serviceHistory = q.data]
             /\ UNCHANGED <<req, resp>>
     /\ UNCHANGED <<authUsers, otps, profiles, rides, garages, motorcycles, calls, app>>

\* Promise.all([getTasks, getDocuments]): either throws on a storage error;
\* `failed` is the set of the two reads that failed.
DashboardListsRead(s, failed) ==
  LET r == inflight[s]
  IN /\ r.pc = "lists"
     /\ IF failed # {}
        THEN DashboardReplies(s, failed, Reply(500, INTERNAL_ERROR))
        ELSE DashboardReplies(s, {},
               Reply(200, successResponse(dashboardOf(r, r.serviceHistory))))
     /\ UNCHANGED <<authUsers, otps, profiles, rides, garages, motorcycles, calls, app>>

\* What authenticateUser does with the token of the garage's owner.
OwnerAuth(g) == authenticateUser("Bearer " \o TokenOf(OwnerOf(g)), "none")

\* The requests of this specification concern one garage, and one dashboard
\* is read at a time: getDashboard keeps what it reads in local variables, so
\* dashboards under way meet only through the tables.  Motorcycles are added
\* and soft-deleted, the primary bike is set and the garage is deleted between
\* any two awaits of getDashboard (the requests with a caller the hook lets
\* through).
ViewedGarages == {g \in GarageIds : \A h \in GarageIds : g <= h}

DashboardSlots == {s \in Slots : \A t \in Slots : s <= t}

PrimaryBikeBodies == {[motorcycleId |-> b] : b \in BikeIds \cup {NoId}}

NextDashboard ==
  \/ \E g \in ViewedGarages, body \in NewBikeBodies :
        CreateMotorcycleRoute(NoReply, g, body)
  \/ \E id \in BikeIds : SoftDeleteMotorcycleRoute(NoReply, id)
  \/ \E id \in ViewedGarages, body \in PrimaryBikeBodies :
        SetPrimaryBikeRoute(NoReply, id, body)
  \/ \E id \in ViewedGarages : DeleteGarageRoute(OwnerAuth(id), id)
  \/ \E s \in DashboardSlots, hookReply \in RequiredAuthReplies, id \in ViewedGarages :
        DashboardArrives(s, hookReply, id)
  \/ \E s \in Slots, fault \in ReadFaults : DashboardGarageRead(s, fault)
  \/ \E s \in Slots, fault \in ReadFaults : DashboardBikesRead(s, fault)
  \/ \E s \in Slots : DashboardAfterReads(s)
  \/ \E s \in Slots, fault \in ReadFaults : DashboardLogsRead(s, fault)
  \/ \E s \in Slots, failed \in SUBSET {"garage_tasks", "garage_documents"} :
        DashboardListsRead(s, failed)

SpecDashboard == InitGarage /\ [][NextDashboard]_vars

\* ------------------------------------------------- ProfileService and storage
\* transformProfileToAPI: the storage row in the API's camelCase shape.
transformProfileToAPI(profile) ==
  IF profile = Nil THEN Nil
  ELSE [id |-> profile.id, displayName |-> profile.display_name,
        phoneNumber |-> profile.phone_number, handle |-> profile.handle,
        role |-> profile.role, isAvailable |-> profile.is_available,
        latitude |-> profile.latitude]

\* The constraints of table profiles on a row about to be stored: id
\* references an identity (of `users`, the provider's identities at that
\* moment), display_name is not null, role is one of Roles, phone_number and
\* handle are unique.
ProfileRowAccepted(row, users) ==
  /\ row.id \in UserIds
  /\ users[row.id] # Nil
  /\ row.display_name \notin {Null, Undefined}
  /\ row.role \in Roles
  /\ \/ row.phone_number = Null
     \/ \A u \in UserIds \ {row.id} :
          profiles[u] = NoRow \/ profiles[u].phone_number # row.phone_number
  /\ \/ row.handle = Null
     \/ \A u \in UserIds \ {row.id} :
          profiles[u] = NoRow \/ profiles[u].handle # row.handle

\* .from('profiles').insert(payload).select().single(): the columns the
\* payload does not name take their defaults; the primary key must be new.
insertProfile(payload, users) ==
  LET row == ApplyPatch(ProfileRow(NoId, Null, Null, "rider"), payload)
  IN IF ProfileRowAccepted(row, users) /\ profiles[row.id] = NoRow
     THEN [error |-> Nil, data |-> row, table |-> [profiles EXCEPT ![row.id] = row]]
     ELSE [error |-> [code |-> "23000", message |-> "constraint violated"],
           data |-> Nil, table |-> profiles]

\* ProfileService.getProfileById: .single() reports an error when no row has
\* the id, and the method throws.
getProfileById(id) ==
  LET q == selectProfileSingle(id)
  IN IF q.error # Nil THEN Err("Failed to get profile")
     ELSE Ok(transformProfileToAPI(q.data))

getProfileByUserId(userId) ==
  LET q == selectProfileSingle(userId)
  IN IF q.error # Nil THEN Err("Failed to get profile by user ID")
     ELSE Ok(transformProfileToAPI(q.data))

\* ProfileService.createProfile: profileData is inserted as it is given.
createProfile(profileData) ==
  LET r == insertProfile(profileData, authUsers)
  IN IF r.error # Nil
     THEN [error |-> [message |-> "Failed to create profile"], data |-> Nil,
           table |-> profiles]
     ELSE [error |-> Nil, data |-> transformProfileToAPI(r.data), table |-> r.table]

\* ProfileService.updateProfile: .update(updateData).eq('id', id).select()
\* .maybeSingle(); no row with the id is no error and null data.
updateProfile(id, updateData) ==
  IF id \notin UserIds \/ profiles[id] = NoRow
  THEN [error |-> Nil, data |-> Nil, table |-> profiles]
  ELSE LET row == ApplyPatch(profiles[id], updateData)
       IN IF ProfileRowAccepted(row, authUsers)
          THEN [error |-> Nil, data |-> transformProfileToAPI(row),
                table |-> [profiles EXCEPT ![id] = row]]
          ELSE [error |-> [message |-> "Failed to update profile"], data |-> Nil,
                table |-> profiles]

\* supabase.from('profiles').delete().eq('id', id)
deleteProfileRow(id) ==
  [error |-> Nil,
   table |-> [u \in UserIds |-> IF u = id THEN NoRow ELSE profiles[u]]]

\* ----------------------------------------------- auth provider: phone sign-in
\* The code the provider sent to a phone (one value stands for every code).
OtpCode == "123456"

\* The form of phone number the provider accepts.
E164(phone) == StartsWith(phone, "+")

\* The identity the provider keeps, or would create, for a phone number.
IdentityIdFor(phone) == CHOOSE u \in UserIds : PhoneFor(u) = phone

\* Trigger on_auth_user_created (handle_new_user_signup): a profile row for
\* the identity just inserted, from its phone and metadata.
handle_new_user_signup(id, phone, metadata, users) ==
  insertProfile([id |-> id,
                 display_name |-> IF Get(metadata, "display_name") \in {Undefined, Null}
                                  THEN "User" ELSE metadata.display_name,
                 phone_number |-> phone,
                 handle |-> IF Get(metadata, "handle") = Undefined
                            THEN Null ELSE metadata.handle,
                 role |-> "rider"], users)

\* supabase.auth.signInWithOtp({phone, options: {shouldCreateUser, data}}):
\* a code is sent to the phone of an existing identity; for an unknown phone
\* the identity is created first when shouldCreateUser allows it, and the
\* signup trigger then runs if the phone-auth migration is applied
\* (`triggerApplied`).  A phone that is not in E.164 form is refused.  The
\* result carries the provider and table states.
signInWithOtp(phone, shouldCreateUser, metadata, triggerApplied) ==
  LET u == IdentityIdFor(phone)
      unchanged == [authUsers |-> authUsers, profiles |-> profiles, otps |-> otps]
      created == [authUsers EXCEPT ![u] = NewIdentity(phone)]
      t == handle_new_user_signup(u, phone, metadata, created)
  IN IF ~E164(phone)
     THEN unchanged @@ [error |-> [code |-> "validation_failed",
                                   message |-> "Invalid phone number format (E.164 required)"]]
     ELSE IF authUsers[u] # Nil
     THEN [unchanged EXCEPT !.otps = otps \cup {phone}] @@ [error |-> Nil]
     ELSE IF ~shouldCreateUser
     THEN unchanged @@ [error |-> [code |-> "otp_disabled",
                                   message |-> "Signups not allowed for otp"]]
     ELSE IF ~triggerApplied
     THEN [authUsers |-> created, profiles |-> profiles,
           otps |-> otps \cup {phone}, error |-> Nil]
     ELSE IF t.error # Nil
     THEN unchanged @@ [error |-> [code |-> "unexpected_failure",
                                   message |-> "Database error saving new user"]]
     ELSE [authUsers |-> created, profiles |-> t.table,
           otps |-> otps \cup {phone}, error |-> Nil]

\* supabase.auth.verifyOtp({phone, token, type: 'sms'}): the pending code of
\* the phone is consumed and a session is issued to its identity.
verifyOtp(phone, token) ==
  LET u == IdentityIdFor(phone)
  IN IF phone \in otps /\ token = OtpCode /\ authUsers[u] # Nil
     THEN [error |-> Nil,
           user |-> [id |-> u, phone |-> authUsers[u].phone,
                     email |-> authUsers[u].email],
           session |-> [access_token |-> TokenOf(u),
                        refresh_token |-> "refresh-" \o ToString(u),
                        expires_at |-> Now],
           authUsers |-> [authUsers EXCEPT ![u].session = TRUE],
           otps |-> otps \ {phone}]
     ELSE [error |-> [message |-> "Token has expired or is invalid"],
           user |-> Nil, session |-> Nil, authUsers |-> authUsers, otps |-> otps]

\* ------------------------------------------------------- phone OTP routes
\* What can go wrong in a call a handler of the auth routes makes, one per
\* request: the profiles query answers with an error or throws, the profiles
\* insert answers with an error, the provider answers with an error or throws.
PhoneFaults ==
  {"none", "profiles_error", "profiles_throws", "provider_error", "provider_throws"}

VerifyFaults ==
  {"none", "profiles_error", "profiles_throws", "insert_error", "provider_throws"}

\* A call to the storage or to the provider, as the handler made it, and how
\* it ended: "ok", "error" (an error in the result) or "thrown".
Call(op, args, outcome) == [op |-> op, args |-> args, outcome |-> outcome]

sendOtpErrorReply_serverError(error) == Reply(500, INTERNAL_ERROR)

\* The reply of POST /api/auth/phone to an error of the provider.
sendOtpErrorReply(error) ==
  Reply(400, BAD_REQUEST(IF error.code = "validation_failed"
                         THEN "Invalid phone number provided"
                         ELSE error.message))

\* What a handler of the auth routes leaves behind: its reply, the provider
\* and table states, and the calls it made in order.
Served(reply, users, table, pending, made) ==
  [reply |-> reply, authUsers |-> users, profiles |-> table, otps |-> pending,
   calls |-> made]

\* Handler of POST /api/auth/phone
sendOtpHandler(phone, triggerApplied, fault) ==
  LET existingUsers == {u \in UserIds : /\ profiles[u] # NoRow
                                        /\ profiles[u].phone_number = phone}
      userExists == fault # "profiles_error" /\ existingUsers # {}
      options == [shouldCreateUser |-> ~userExists,
                  data |-> IF ~userExists
                           THEN [display_name |-> PlaceholderName(phone), handle |-> Null]
                           ELSE Nil]
      r == IF fault = "provider_error"
           THEN [authUsers |-> authUsers, profiles |-> profiles, otps |-> otps,
                 error |-> [code |-> "over_sms_send_rate_limit",
                            message |-> "Error sending sms"]]
           ELSE signInWithOtp(phone, options.shouldCreateUser, options.data,
                              triggerApplied)
      select == Call("profiles.select", [phone_number |-> phone],
                     IF fault = "profiles_error" THEN "error" ELSE "ok")
      signIn(outcome) == Call("auth.signInWithOtp", [phone |-> phone] @@ options, outcome)
  IN IF fault = "profiles_throws"
     THEN Served(Reply(500, INTERNAL_ERROR), authUsers, profiles, otps,
                 <<Call("profiles.select", [phone_number |-> phone], "thrown")>>)
     ELSE IF fault = "provider_throws"
     THEN Served(Reply(500, INTERNAL_ERROR), authUsers, profiles, otps,
                 <<select, signIn("thrown")>>)
     ELSE IF r.error # Nil
     THEN Served(sendOtpErrorReply(r.error),
                 r.authUsers, r.profiles, r.otps, <<select, signIn("error")>>)
     ELSE Served(Reply(200, successResponse([message |-> "OTP sent successfully",
                                             isNewUser |-> ~userExists])),
                 r.authUsers, r.profiles, r.otps, <<select, signIn("ok")>>)

\* Handler of POST /api/auth/verify.  The profile in the reply is the storage
\* row as selected or inserted.
verifyOtpHandler(phone, token, fault) ==
  LET v == verifyOtp(phone, token)
      q == IF fault = "profiles_error"
           THEN [data |-> Nil, error |-> [code |-> "08006",
                                          message |-> "connection failure"]]
           ELSE selectProfileSingle(v.user.id)
      payload == [id |-> v.user.id, phone_number |-> phone,
                  display_name |-> PlaceholderName(phone),
                  handle |-> Null, role |-> "rider"]
      ins == IF fault = "insert_error"
             THEN [data |-> Nil, table |-> profiles,
                   error |-> [code |-> "08006", message |-> "connection failure"]]
             ELSE insertProfile(payload, v.authUsers)
      verify(outcome) == Call("auth.verifyOtp", [phone |-> phone, token |-> token], outcome)
      select == Call("profiles.select", [id |-> v.user.id],
                     IF q.error # Nil /\ q.error.code # "PGRST116" THEN "error" ELSE "ok")
      insert == Call("profiles.insert", payload, IF ins.error # Nil THEN "error" ELSE "ok")
      reply(profile, table, isNewUser, made) ==
        Served(Reply(200, successResponse(
                 [user |-> [id |-> v.user.id, phone |-> v.user.phone,
                            email |-> v.user.email],
                  profile |-> profile,
                  session |-> [access_token |-> v.session.access_token,
                               refresh_token |-> v.session.refresh_token,
                               expires_at |-> v.session.expires_at],
                  isNewUser |-> isNewUser])),
               v.authUsers, table, v.otps, made)
  IN IF fault = "provider_throws"
     THEN Served(Reply(500, INTERNAL_ERROR), authUsers, profiles, otps,
                 <<verify("thrown")>>)
     ELSE IF v.error # Nil
     THEN Served(Reply(400, BAD_REQUEST("Invalid or expired OTP")),
                 v.authUsers, profiles, v.otps, <<verify("error")>>)
     ELSE IF v.user = Nil \/ v.session = Nil
     THEN Served(Reply(400, BAD_REQUEST("Verification failed")),
                 v.authUsers, profiles, v.otps, <<verify("ok")>>)
     ELSE IF fault = "profiles_throws"
     THEN Served(Reply(500, INTERNAL_ERROR), v.authUsers, profiles, v.otps,
                 <<verify("ok"), Call("profiles.select", [id |-> v.user.id], "thrown")>>)
     ELSE IF q.error # Nil /\ q.error.code = "PGRST116"
     THEN IF ins.error # Nil
          THEN Served(Reply(500, INTERNAL_ERROR), v.authUsers, profiles, v.otps,
                      <<verify("ok"), select, insert>>)
          ELSE reply(ins.data, ins.table, TRUE, <<verify("ok"), select, insert>>)
     ELSE IF q.error # Nil
     THEN Served(Reply(500, INTERNAL_ERROR), v.authUsers, profiles, v.otps,
                 <<verify("ok"), select>>)
     ELSE reply(q.data, profiles, FALSE, <<verify("ok"), select>>)

\* A request to an auth or profile route.  `identity` is the identity whose
\* access token the request carries (NoId without an accepted token).
ProfileRequest(kind, identity, id, body) ==
  [kind |-> kind, identity |-> identity, id |-> id, body |-> body]

\* Body schema of POST /api/auth/verify: token of exactly 6 characters.
ValidVerifyBody(body) ==
  /\ {"phone", "token"} \subseteq DOMAIN body
  /\ IsStringOfLength(body.token, 6, 6)

AuthRoute(kind, body, valid, h) ==
  /\ req' = ProfileRequest(kind, NoId, NoId, body)
  /\ IF ~valid
     THEN resp' = ValidationError /\ calls' = <<>>
          /\ UNCHANGED <<authUsers, profiles, otps>>
     ELSE /\ resp' = h.reply
          /\ calls' = h.calls
          /\ authUsers' = h.authUsers
          /\ profiles' = h.profiles
          /\ otps' = h.otps
  /\ UNCHANGED <<rides, garages, motorcycles, inflight, app>>

PhoneRoute(body, triggerApplied, fault) ==
  AuthRoute("POST /api/auth/phone", body, "phone" \in DOMAIN body,
            sendOtpHandler(body.phone, triggerApplied, fault))

VerifyRoute(body, fault) ==
  AuthRoute("POST /api/auth/verify", body, ValidVerifyBody(body),
            verifyOtpHandler(body.phone, body.token, fault))

\* ------------------------------------------------------------ profile routes
\* Body schema of POST /api/profiles: displayName required.
ValidCreateProfileBody(body) ==
  /\ "displayName" \in DOMAIN body
  /\ IsStringOfLength(body.displayName, 1, 100)
  /\ "phoneNumber" \in DOMAIN body => IsStringOfLength(body.phoneNumber, 10, 15)
  /\ "handle" \in DOMAIN body => IsStringOfLength(body.handle, 3, 30)

\* Body schema of PATCH /api/profiles/:id: nothing required.
ValidUpdateProfileBody(body) ==
  /\ "displayName" \in DOMAIN body => IsStringOfLength(body.displayName, 1, 100)
  /\ "phoneNumber" \in DOMAIN body => IsStringOfLength(body.phoneNumber, 10, 15)
  /\ "handle" \in DOMAIN body => IsStringOfLength(body.handle, 3, 30)

ProfileHandled(reply, table) == [reply |-> reply, table |-> table]

\* The end of a profile handler: the service's result in the envelope, 500
\* when the service threw.
ProfileServiceReply(r, status) ==
  IF r.error # Nil THEN ProfileHandled(Reply(500, INTERNAL_ERROR), profiles)
  ELSE ProfileHandled(Reply(status, successResponse(r.data)), r.table)

\* Handler of POST /api/profiles
createProfileHandler(user, body) ==
  LET userId == UserIdOf(user)
      existingProfile == getProfileByUserId(userId)
  IN IF userId = NoId THEN ProfileHandled(Reply(401, UNAUTHORIZED), profiles)
     ELSE IF existingProfile.error # Nil
     THEN ProfileHandled(Reply(500, INTERNAL_ERROR), profiles)
     ELSE IF existingProfile.data # Nil
     THEN ProfileHandled(Reply(409, CONFLICT("Profile already exists")), profiles)
     ELSE ProfileServiceReply(createProfile([id |-> userId] @@ body), 201)

\* The camelCase keys the PATCH handler copies, with the column each becomes.
ProfileFieldMap ==
  [displayName |-> "display_name", phoneNumber |-> "phone_number", handle |-> "handle"]

\* updateData of the PATCH handler: one column per mapped key the body has.
mapProfileUpdate(body) ==
  LET present == {k \in DOMAIN ProfileFieldMap : Get(body, k) # Undefined}
  IN [c \in {ProfileFieldMap[k] : k \in present} |->
        body[CHOOSE k \in present : ProfileFieldMap[k] = c]]

profileOwnerCheck_anyCaller(user, id) ==
  LET existingProfile == getProfileById(id)
  IN IF existingProfile.error # Nil THEN Reply(500, INTERNAL_ERROR)
     ELSE IF existingProfile.data = Nil THEN Reply(404, NOT_FOUND("Profile"))
     ELSE NoReply

\* The check the PATCH and DELETE handlers start with.
profileOwnerCheck(user, id) ==
  LET existingProfile == getProfileById(id)
  IN IF existingProfile.error # Nil THEN Reply(500, INTERNAL_ERROR)
     ELSE IF existingProfile.data = Nil THEN Reply(404, NOT_FOUND("Profile"))
     ELSE IF existingProfile.data.id # UserIdOf(user) THEN Reply(403, FORBIDDEN)
     ELSE NoReply

\* Handler of PATCH /api/profiles/:id
updateProfileHandler(user, id, body) ==
  LET denied == profileOwnerCheck(user, id)
  IN IF denied # NoReply THEN ProfileHandled(denied, profiles)
     ELSE ProfileServiceReply(updateProfile(id, mapProfileUpdate(body)), 200)

\* Handler of DELETE /api/profiles/:id
deleteProfileHandler(user, id) ==
  LET denied == profileOwnerCheck(user, id)
      r == deleteProfileRow(id)
  IN IF denied # NoReply THEN ProfileHandled(denied, profiles)
     ELSE IF r.error # Nil THEN ProfileHandled(Reply(500, INTERNAL_ERROR), profiles)
     ELSE ProfileHandled(Reply(204, NoBody), r.table)

\* ProfileService.updateLocation and updateAvailability:
\* .update({..}).eq('id', id).select().maybeSingle()
updateLocation(id, latitude, longitude) ==
  updateProfile(id, [latitude |-> <<latitude, longitude>>])

updateAvailability(id, isAvailable) == updateProfile(id, [is_available |-> isAvailable])

\* Body schemas of PATCH /api/profiles/:id/location and /:id/availability.
ValidLocationBody(body) ==
  /\ {"latitude", "longitude"} \subseteq DOMAIN body
  /\ body.latitude \in Int /\ body.latitude >= -90 /\ body.latitude <= 90
  /\ body.longitude \in Int /\ body.longitude >= -180 /\ body.longitude <= 180

ValidAvailabilityBody(body) ==
  "is_available" \in DOMAIN body /\ body.is_available \in BOOLEAN

\* Handler of PATCH /api/profiles/:id/location
updateLocationHandler(user, id, body) ==
  LET denied == profileOwnerCheck(user, id)
  IN IF denied # NoReply THEN ProfileHandled(denied, profiles)
     ELSE ProfileServiceReply(updateLocation(id, body.latitude, body.longitude), 200)

\* Handler of PATCH /api/profiles/:id/availability
updateAvailabilityHandler(user, id, body) ==
  LET denied == profileOwnerCheck(user, id)
  IN IF denied # NoReply THEN ProfileHandled(denied, profiles)
     ELSE ProfileServiceReply(updateAvailability(id, body.is_available), 200)

\* The identity whose access token the authorization header carries.
BearerIdentity(authHeader) ==
  IF Falsy(authHeader) \/ ~StartsWith(authHeader, "Bearer ") THEN NoId
  ELSE LET got == getUser(Substring(authHeader, 7), "none")
       IN IF got.user = Nil THEN NoId ELSE got.user.id

\* The credentials a request can carry: the identity of the token and what
\* authenticateUser does with it.
Credentials ==
  {[identity |-> BearerIdentity(h), hook |-> authenticateUser(h, "none")] :
     h \in Headers}

\* One request through a profile write route: schema validation, then the
\* preHandler authenticateUser, then the handler (outcome `h`).
ProfileWrite(kind, c, id, body, valid, h) ==
  /\ req' = ProfileRequest(kind, c.identity, id, body)
  /\ IF ~valid THEN resp' = ValidationError /\ UNCHANGED profiles
     ELSE IF c.hook.reply # NoReply THEN resp' = c.hook.reply /\ UNCHANGED profiles
     ELSE resp' = h.reply /\ profiles' = h.table
  /\ UNCHANGED <<authUsers, otps, rides, garages, motorcycles, calls, inflight, app>>

CreateProfileRoute(c, body) ==
  ProfileWrite("POST /api/profiles", c, NoId, body, ValidCreateProfileBody(body),
               createProfileHandler(c.hook.user, body))

UpdateProfileRoute(c, id, body) ==
  ProfileWrite("PATCH /api/profiles/:id", c, id, body, ValidUpdateProfileBody(body),
               updateProfileHandler(c.hook.user, id, body))

DeleteProfileRoute(c, id) ==
  ProfileWrite("DELETE /api/profiles/:id", c, id, NoBody, TRUE,
               deleteProfileHandler(c.hook.user, id))

UpdateLocationRoute(c, id, body) ==
  ProfileWrite("PATCH /api/profiles/:id/location", c, id, body, ValidLocationBody(body),
               updateLocationHandler(c.hook.user, id, body))

UpdateAvailabilityRoute(c, id, body) ==
  ProfileWrite("PATCH /api/profiles/:id/availability", c, id, body,
               ValidAvailabilityBody(body),
               updateAvailabilityHandler(c.hook.user, id, body))

\* GET /api/profiles/:id: optionalAuth never replies and the handler does
\* not read request.user.
GetProfileRoute(id) ==
  LET r == getProfileById(id)
  IN /\ req' = ProfileRequest("GET /api/profiles/:id", NoId, id, NoBody)
     /\ resp' = IF r.error # Nil THEN Reply(500, INTERNAL_ERROR)
                ELSE IF r.data = Nil THEN Reply(404, NOT_FOUND("Profile"))
                ELSE Reply(200, successResponse(r.data))
     /\ UNCHANGED <<authUsers, otps, profiles, rides, garages, motorcycles, calls, inflight, app>>

\* Request bodies tried on the auth and profile routes.
Ada == "Ada"

OtherPhone == "+15550109999"

PhoneBodies == {[phone |-> p] : p \in Phones}

VerifyBodies == {[phone |-> p, token |-> t] : p \in Phones, t \in {OtpCode, "000000", "123"}}

CreateProfileBodies == {[displayName |-> Ada], [displayName |-> ""]}

UpdateProfileBodies ==
  {[displayName |-> Ada], [phoneNumber |-> OtherPhone], [phoneNumber |-> PhoneFor(1)]}

\* The service starts with no identity and empty tables.
Init ==
  /\ EmptyDb
  /\ req = NoRequest
  /\ resp = NoReply
  /\ calls = <<>>
  /\ inflight = NoneInFlight
  /\ app = NoApp

Next ==
  \/ \E body \in PhoneBodies, triggerApplied \in BOOLEAN :
        PhoneRoute(body, triggerApplied, "none")
  \/ \E body \in VerifyBodies : VerifyRoute(body, "none")
  \/ \E id \in UserIds : GetProfileRoute(id)
  \/ \E c \in Credentials, body \in CreateProfileBodies : CreateProfileRoute(c, body)
  \/ \E c \in Credentials, id \in UserIds, body \in UpdateProfileBodies :
        UpdateProfileRoute(c, id, body)
  \/ \E c \in Credentials, id \in UserIds : DeleteProfileRoute(c, id)

Spec == Init /\ [][Next]_vars

\* ------------------------------------------- profile writes by any caller
\* Every identity is signed up and has its profile; profiles are updated,
\* located, switched available and deleted by every caller.
LocationBodies == {[latitude |-> 1, longitude |-> 1], [latitude |-> 100, longitude |-> 1]}

AvailabilityBodies == {[is_available |-> TRUE]}

NextProfileAccess ==
  \/ \E c \in Credentials, id \in UserIds, body \in {[displayName |-> Ada]} :
        UpdateProfileRoute(c, id, body)
  \/ \E c \in Credentials, id \in UserIds, body \in LocationBodies :
        UpdateLocationRoute(c, id, body)
  \/ \E c \in Credentials, id \in UserIds, body \in AvailabilityBodies :
        UpdateAvailabilityRoute(c, id, body)
  \/ \E c \in Credentials, id \in UserIds : DeleteProfileRoute(c, id)

SpecProfileAccess == InitGarage /\ [][NextProfileAccess]_vars

\* ------------------------------------- the phone OTP routes with failing calls
\* A phone number the provider refuses.
InvalidPhone == "5550100"

\* POST /api/auth/phone and POST /api/auth/verify on their own, each request
\* with at most one failing call.
NextOtp ==
  \/ \E body \in PhoneBodies \cup {[phone |-> InvalidPhone]},
        triggerApplied \in BOOLEAN, fault \in PhoneFaults :
        PhoneRoute(body, triggerApplied, fault)
  \/ \E body \in VerifyBodies, fault \in VerifyFaults : VerifyRoute(body, fault)

SpecOtp == Init /\ [][NextOtp]_vars

\* ----------------------------- POST /api/auth/verify, one await at a time
\* The handler of POST /api/auth/verify awaits three calls in turn
\* (verifyOtp, the profile select, the profile insert); requests handled
\* concurrently interleave at these awaits.  A slot holds one request: where
\* its handler stands and what it has read so far, then its reply.
Awaiting(pc, body, v, fresh) ==
  [pc |-> pc, body |-> body, user |-> v.user, session |-> v.session, fresh |-> fresh]

Replied(r, reply, accepted) ==
  [pc |-> "done", body |-> r.body, user |-> r.user, fresh |-> r.fresh,
   accepted |-> accepted, reply |-> reply]

\* reply.send(successResponse({user, profile, session, isNewUser}))
verifiedReply(r, profile, isNewUser) ==
  Reply(200, successResponse(
    [user |-> [id |-> r.user.id, phone |-> r.user.phone, email |-> r.user.email],
     profile |-> profile,
     session |-> [access_token |-> r.session.access_token,
                  refresh_token |-> r.session.refresh_token,
                  expires_at |-> r.session.expires_at],
     isNewUser |-> isNewUser]))

\* The request arrives and the handler awaits supabaseService.auth.verifyOtp.
\* `fresh` notes whether the identity had no profile at that moment.
VerifyAwaitOtp(s, body) ==
  LET v == verifyOtp(body.phone, body.token)
      u == IdentityIdFor(body.phone)
      r == Awaiting("select", body, v, profiles[u] = NoRow)
      refused == Reply(400, BAD_REQUEST("Invalid or expired OTP"))
  IN /\ s \in FreeSlots
     /\ ValidVerifyBody(body)
     /\ req' = ProfileRequest("POST /api/auth/verify", NoId, NoId, body)
     /\ authUsers' = v.authUsers
     /\ otps' = v.otps
     /\ IF v.error # Nil
        THEN /\ inflight' = [inflight EXCEPT ![s] = Replied(r, refused, FALSE)]
             /\ resp' = refused
        ELSE /\ inflight' = [inflight EXCEPT ![s] = r]
             /\ UNCHANGED resp
     /\ UNCHANGED <<profiles, rides, garages, motorcycles, calls, app>>

\* The handler awaits the select of the identity's profile.
VerifyAwaitSelect(s) ==
  LET r == inflight[s]
      q == selectProfileSingle(r.user.id)
      found == verifiedReply(r, q.data, FALSE)
  IN /\ r.pc = "select"
     /\ IF q.error # Nil
        THEN /\ inflight' = [inflight EXCEPT ![s].pc = "insert"]
             /\ UNCHANGED resp
        ELSE /\ inflight' = [inflight EXCEPT ![s] = Replied(r, found, TRUE)]
             /\ resp' = found
     /\ UNCHANGED <<authUsers, otps, profiles, rides, garages, motorcycles, req, calls, app>>

\* The handler awaits the insert of the new profile.
VerifyAwaitInsert(s) ==
  LET r == inflight[s]
      ins == insertProfile([id |-> r.user.id, phone_number |-> r.body.phone,
                            display_name |-> PlaceholderName(r.body.phone),
                            handle |-> Null, role |-> "rider"], authUsers)
      reply == IF ins.error # Nil THEN Reply(500, INTERNAL_ERROR)
               ELSE verifiedReply(r, ins.data, TRUE)
  IN /\ r.pc = "insert"
     /\ profiles' = ins.table
     /\ inflight' = [inflight EXCEPT ![s] = Replied(r, reply, TRUE)]
     /\ resp' = reply
     /\ UNCHANGED <<authUsers, otps, rides, garages, motorcycles, req, calls, app>>

\* Codes are sent by POST /api/auth/phone while verifications are under way.
NextVerifyRace ==
  \/ \E body \in PhoneBodies, triggerApplied \in BOOLEAN :
        PhoneRoute(body, triggerApplied, "none")
  \/ \E s \in Slots, body \in VerifyBodies : VerifyAwaitOtp(s, body)
  \/ \E s \in Slots : VerifyAwaitSelect(s)
  \/ \E s \in Slots : VerifyAwaitInsert(s)

SpecVerifyRace == Init /\ [][NextVerifyRace]_vars

\* ------------------------------------------- sign-up by phone, with a handle
\* Body schema of POST /api/auth/signup/phone: phone in E.164 form and
\* displayName required, handle optional.
ValidSignupBody(body) ==
  /\ {"phone", "displayName"} \subseteq DOMAIN body
  /\ E164(body.phone)
  /\ IsStringOfLength(body.displayName, 1, 100)
  /\ "handle" \in DOMAIN body => IsStringOfLength(body.handle, 3, 30)

\* Handler of POST /api/auth/signup/phone
signupPhoneHandler(body, triggerApplied) ==
  LET handle == Get(body, "handle")
      existingUsers == {u \in UserIds : /\ profiles[u] # NoRow
                                        /\ profiles[u].phone_number = body.phone}
      existingProfile == {u \in UserIds : /\ profiles[u] # NoRow
                                          /\ profiles[u].handle = handle}
      r == signInWithOtp(body.phone, TRUE,
                         [display_name |-> body.displayName,
                          handle |-> IF Falsy(handle) THEN Null ELSE handle],
                         triggerApplied)
      unchanged(reply) == Served(reply, authUsers, profiles, otps, <<>>)
  IN IF existingUsers # {}
     THEN unchanged(Reply(409, CONFLICT("User with this phone number already exists")))
     ELSE IF ~Falsy(handle) /\ existingProfile # {}
     THEN unchanged(Reply(409, CONFLICT("Handle is already taken")))
     ELSE IF r.error # Nil
     THEN Served(Reply(400, BAD_REQUEST(r.error.message)),
                 r.authUsers, r.profiles, r.otps, <<>>)
     ELSE Served(Reply(200, successResponse([message |-> "OTP sent successfully"])),
                 r.authUsers, r.profiles, r.otps, <<>>)

SignupPhoneRoute(body, triggerApplied) ==
  AuthRoute("POST /api/auth/signup/phone", body, ValidSignupBody(body),
            signupPhoneHandler(body, triggerApplied))

\* Request bodies tried on the sign-up and profile routes.
Handles == {"ada_rides", "bob"}

SignupBodies ==
  {[phone |-> p, displayName |-> Ada] : p \in Phones}
    \cup {[phone |-> p, displayName |-> Ada, handle |-> h] : p \in Phones, h \in Handles}

HandleBodies ==
  {[handle |-> h] : h \in Handles} \cup {[phoneNumber |-> PhoneFor(1)]}

\* Sign-up, verification of the code, and changes of handle and phone number.
NextSignup ==
  \/ \E body \in SignupBodies, triggerApplied \in BOOLEAN :
        SignupPhoneRoute(body, triggerApplied)
  \/ \E body \in VerifyBodies : VerifyRoute(body, "none")
  \/ \E c \in Credentials, id \in UserIds, body \in HandleBodies :
        UpdateProfileRoute(c, id, body)

SpecSignup == Init /\ [][NextSignup]_vars

\* ------------------------------------------------- list routes (page, limit)
\* The instants of the model in ascending order (ISO timestamps of one format
\* compare as their instants do).
Instants == <<Earlier, Now, StartsAt, Later>>

InstantIndex(t) == CHOOSE i \in 1..Len(Instants) : Instants[i] = t

\* .gte(column, t) / .lte(column, t) on a timestamp
NotBefore(value, t) == InstantIndex(value) >= InstantIndex(t)

NotAfter(value, t) == InstantIndex(value) <= InstantIndex(t)

UpperCase == "ABCDEFGHIJKLMNOPQRSTUVWXYZ"

LowerCase == "abcdefghijklmnopqrstuvwxyz"

LowerChar(c) ==
  LET at == {i \in 1..Len(UpperCase) : SubSeq(UpperCase, i, i) = c}
  IN IF at = {} THEN c ELSE LET i == CHOOSE j \in at : TRUE IN SubSeq(LowerCase, i, i)

RECURSIVE Lower(_)
Lower(s) == IF s = "" THEN "" ELSE LowerChar(SubSeq(s, 1, 1)) \o Lower(SubSeq(s, 2, Len(s)))

\* column.ilike.%query% : the column is not null and holds the query
\* somewhere, letter case apart.
ilike(value, query) ==
  /\ value # Null
  /\ \E i \in 0..(Len(value) - Len(query)) :
        Lower(SubSeq(value, i + 1, i + Len(query))) = Lower(query)

SearchLimit == 20

\* ProfileService.searchProfiles: the results it can return, at most
\* SearchLimit of the rows whose handle or display_name holds the query.
searchProfiles(query) ==
  LET found == {u \in UserIds : /\ profiles[u] # NoRow
                                /\ \/ ilike(profiles[u].handle, query)
                                   \/ ilike(profiles[u].display_name, query)}
      n == IF Cardinality(found) <= SearchLimit THEN Cardinality(found) ELSE SearchLimit
  IN {{transformProfileToAPI(profiles[u]) : u \in chosen} :
        chosen \in {c \in SUBSET found : Cardinality(c) = n}}

\* RideService.getRidesByCreator (as a set: the order by created_at is left
\* out).
getRidesByCreator(creatorId) ==
  {rides[r] : r \in {x \in RideIds : rides[x] # NoRow /\ rides[x].creator_id = creatorId}}

\* RideService.getUpcomingRides
getUpcomingRides ==
  {rides[r] : r \in {x \in RideIds : /\ rides[x] # NoRow
                                     /\ NotBefore(rides[x].starts_at, Now)
                                     /\ rides[x].status = "active"}}

\* RideService.searchRides(filters): a filter applies when it is given.
searchRides(filters) ==
  {rides[r] : r \in {x \in RideIds :
     /\ rides[x] # NoRow
     /\ rides[x].status = "active"
     /\ ~Falsy(filters.pace) => Get(rides[x], "pace") = filters.pace
     /\ ~Falsy(filters.experience_level) =>
           Get(rides[x], "experience_level") = filters.experience_level
     /\ ~Falsy(filters.starts_after) => NotBefore(rides[x].starts_at, filters.starts_after)
     /\ ~Falsy(filters.starts_before) => NotAfter(rides[x].starts_at, filters.starts_before)}}

\* querystring schema of the list routes: page integer >= 1, limit integer
\* in 1..100; the defaults (page 1, limit 20) are filled in for absent keys.
ValidPageQuery(query) ==
  /\ "page" \in DOMAIN query => query.page >= 1
  /\ "limit" \in DOMAIN query => query.limit >= 1 /\ query.limit <= 100

PageOf(query) == IF "page" \in DOMAIN query THEN query.page ELSE 1

LimitOf(query) == IF "limit" \in DOMAIN query THEN query.limit ELSE 20

\* What a list handler sends: the whole result under `key` and the
\* pagination block computed from the result's length.
listReply(key, result, query) ==
  Reply(200, successResponse(
    (key :> result) @@
    [pagination |-> createPaginationMeta(PageOf(query), LimitOf(query), Cardinality(result))]))

ListRequest(kind, caller, query) == [kind |-> kind, caller |-> caller, query |-> query]

ListRead(kind, caller, query, reply) ==
  /\ req' = ListRequest(kind, caller, query)
  /\ resp' = IF ValidPageQuery(query) THEN reply ELSE ValidationError
  /\ UNCHANGED <<authUsers, otps, profiles, rides, garages, motorcycles, calls, inflight, app>>

\* GET /api/profiles (optionalAuth never replies)
SearchProfilesRoute(a, query) ==
  \E result \in searchProfiles(IF Falsy(Get(query, "display_name")) THEN ""
                                ELSE query.display_name) :
    ListRead("GET /api/profiles", a.user, query, listReply("profiles", result, query))

\* GET /api/rides
SearchRidesRoute(a, query) ==
  ListRead("GET /api/rides", a.user, query,
           listReply("rides",
                     searchRides([pace |-> Get(query, "pace"),
                                  experience_level |-> Get(query, "experience_level"),
                                  starts_after |-> Get(query, "start_date"),
                                  starts_before |-> Get(query, "end_date")]),
                     query))

\* GET /api/rides/my-rides (authenticateUser)
MyRidesRoute(a, query) ==
  ListRead("GET /api/rides/my-rides", a.user, query,
           IF a.reply # NoReply THEN a.reply
           ELSE IF UserIdOf(a.user) = NoId THEN Reply(401, UNAUTHORIZED)
           ELSE listReply("rides", getRidesByCreator(a.user.id), query))

\* GET /api/rides/upcoming
UpcomingRidesRoute(a, query) ==
  ListRead("GET /api/rides/upcoming", a.user, query,
           listReply("rides", getUpcomingRides, query))

NoQuery == <<>>

PageQueries ==
  {NoQuery, [limit |-> 1], [page |-> 2, limit |-> 1], [limit |-> 0]}

ProfileQueries == PageQueries \cup {[display_name |-> "USER 0001", limit |-> 1]}

RideQueries == PageQueries \cup {[start_date |-> Now, limit |-> 1]}

OptionalRouteAuth == {optionalAuth(h, "none") : h \in Headers}

NextLists ==
  \/ \E a \in RouteAuth, body \in CreateRideBodies : CreateRideRoute(a, body)
  \/ \E a \in RouteAuth, id \in RideIds, body \in StatusBodies :
        UpdateRideStatusRoute(a, id, body)
  \/ \E a \in OptionalRouteAuth, query \in ProfileQueries : SearchProfilesRoute(a, query)
  \/ \E a \in OptionalRouteAuth, query \in RideQueries : SearchRidesRoute(a, query)
  \/ \E a \in RouteAuth, query \in PageQueries : MyRidesRoute(a, query)
  \/ \E a \in OptionalRouteAuth, query \in PageQueries : UpcomingRidesRoute(a, query)

SpecLists == InitRides /\ [][NextLists]_vars

\* ------------------------------------------------------ pagination metadata
Paginate(page, limit, total) ==
  /\ req' = [kind |-> "createPaginationMeta", page |-> page, limit |-> limit,
             total |-> total]
  /\ resp' = Reply(200, createPaginationMeta(page, limit, total))
  /\ UNCHANGED <<authUsers, otps, profiles, rides, garages, motorcycles, calls, inflight, app>>

InitPagination ==
  /\ EmptyDb /\ req = NoRequest /\ resp = NoReply /\ calls = <<>>
  /\ inflight = NoneInFlight /\ app = NoApp

NextPagination ==
  \E page \in -MaxInt..MaxInt, limit \in -MaxInt..MaxInt, total \in -MaxInt..MaxInt :
    Paginate(page, limit, total)

SpecPagination == InitPagination /\ [][NextPagination]_vars

\* ================================================================== claims
HasBearer(h) == h # "" /\ StartsWith(h, "Bearer ")

\* The identities whose token the header carries and the provider accepts.
TokenOwners(h) ==
  {u \in UserIds : /\ h = "Bearer " \o TokenOf(u)
                   /\ authUsers[u] # Nil
                   /\ authUsers[u].session}

TokenOwner(h) == CHOOSE u \in TokenOwners(h) : TRUE

RoleOrDefault(role) == IF role \in Roles THEN role ELSE "rider"

\* C4: createPaginationMeta(page, limit, total) returns page, limit and total
\* unchanged and hasMore equal to (page * limit < total), for every triple of
\* integers (here every triple in -MaxInt..MaxInt).
C4_PaginationMeta ==
  req.kind = "createPaginationMeta" =>
    /\ resp.body.page = req.page
    /\ resp.body.limit = req.limit
    /\ resp.body.total = req.total
    /\ resp.body.hasMore = (req.page * req.limit < req.total)

\* The boundary case: the page ends exactly at the last row, so hasMore is false.
C4_Witness ==
  /\ req.kind = "createPaginationMeta"
  /\ req.page >= 1 /\ req.limit >= 1
  /\ req.page * req.limit = req.total
  /\ resp.body.hasMore = FALSE

\* C8: authenticateUser checks, in this order and stopping at the first
\* failure: no "Bearer " authorization header gives 401; a token the provider
\* rejects gives 401; no profile row for the identity gives 404; only when all
\* three pass is {id, email, role} attached, with id the verified identity's
\* id; whenever a reply is sent no identity is attached.
C8_RequiredAuthOrder ==
  (req.kind = "request" /\ req.ran = <<"authenticateUser">>) =>
    LET h == req.authorization
        f == req.fault
        verified == /\ HasBearer(h)
                    /\ f \notin {"getUser_throws", "getUser_error"}
                    /\ TokenOwners(h) # {}
        hasProfile == /\ verified
                      /\ f \notin {"profiles_throws", "profiles_error"}
                      /\ profiles[TokenOwner(h)] # NoRow
    IN /\ resp # NoReply => req.user = NoUser
       /\ ~HasBearer(h) => IsError(resp, 401, "UNAUTHORIZED")
       /\ (HasBearer(h) /\ f # "getUser_throws" /\ ~verified)
            => IsError(resp, 401, "UNAUTHORIZED")
       /\ (verified /\ f # "profiles_throws" /\ ~hasProfile)
            => IsError(resp, 404, "PROFILE_NOT_FOUND")
       /\ hasProfile <=> resp = NoReply
       /\ hasProfile =>
            req.user = [id |-> TokenOwner(h),
                        email |-> authUsers[TokenOwner(h)].email,
                        role |-> RoleOrDefault(profiles[TokenOwner(h)].role)]

\* A verified token whose identity has no profile row: 404, nothing attached.
C8_Witness ==
  /\ req.kind = "request" /\ req.ran = <<"authenticateUser">>
  /\ req.fault = "none"
  /\ TokenOwners(req.authorization) # {}
  /\ profiles[TokenOwner(req.authorization)] = NoRow
  /\ IsError(resp, 404, "PROFILE_NOT_FOUND")
  /\ req.user = NoUser

\* C9: optionalAuth never sends a reply: on a missing header, an invalid
\* token, a missing profile or a thrown exception the request goes on with no
\* identity attached; an identity is attached only when the token verifies and
\* a profile row exists (and then it is that identity).
C9_OptionalAuthNeverRejects ==
  (req.kind = "request" /\ req.ran = <<"optionalAuth">>) =>
    LET h == req.authorization
        verified == HasBearer(h) /\ TokenOwners(h) # {}
    IN /\ resp = NoReply
       /\ req.user # NoUser =>
            /\ verified
            /\ profiles[TokenOwner(h)] # NoRow
            /\ req.user.id = TokenOwner(h)
       /\ (verified /\ req.fault = "none" /\ profiles[TokenOwner(h)] # NoRow)
            => req.user # NoUser

\* A verified token without a profile row: the request goes on anonymously.
C9_Witness ==
  /\ req.kind = "request" /\ req.ran = <<"optionalAuth">>
  /\ req.fault = "none"
  /\ TokenOwners(req.authorization) # {}
  /\ profiles[TokenOwner(req.authorization)] = NoRow
  /\ resp = NoReply
  /\ req.user = NoUser

\* C10: requireRole(allowedRoles) replies 401 when no identity is attached,
\* 403 when the attached identity's role is not in allowedRoles, and lets the
\* request through without a reply exactly when the role is in allowedRoles.
C10_RoleGate ==
  (req.kind = "request" /\ req.ran # <<>>
     /\ req.ran[Len(req.ran)] = "requireRole") =>
    /\ req.user = NoUser => IsError(resp, 401, "UNAUTHORIZED")
    /\ (req.user # NoUser /\ req.user.role \notin req.allowed)
         => IsError(resp, 403, "FORBIDDEN")
    /\ resp = NoReply <=> (req.user # NoUser /\ req.user.role \in req.allowed)

\* An authenticated rider at a gate that admits moderators and admins only.
C10_Witness ==
  /\ req.kind = "request"
  /\ req.ran = <<"authenticateUser", "requireRole">>
  /\ req.user # NoUser
  /\ req.user.role = "rider"
  /\ req.allowed = {"moderator", "admin"}
  /\ IsError(resp, 403, "FORBIDDEN")

\* C2: after softDeleteMotorcycle(id) succeeds, getMotorcycleById(id) and
\* getMotorcyclesByGarage(garage) no longer return that motorcycle, while the
\* row is still stored: a query without the deleted_at filter finds it.
C2_SoftDeleteHidesRow ==
  (req.kind = "DELETE /api/garages/motorcycles/:id" /\ IsSuccess(resp, 200)) =>
    /\ getMotorcycleById(req.id).error # Nil
    /\ \A g \in GarageIds :
         \A row \in getMotorcyclesByGarage(g).data : row.id # req.id
    /\ motorcycleRowsById(req.id) # {}
    /\ \A b \in motorcycleRowsById(req.id) : motorcycles[b].deleted_at # Null

\* A motorcycle was soft-deleted while its garage still lists another one.
C2_Witness ==
  /\ req.kind = "DELETE /api/garages/motorcycles/:id"
  /\ IsSuccess(resp, 200)
  /\ resp.body.data.motorcycle.id = req.id
  /\ getMotorcyclesByGarage(resp.body.data.motorcycle.garage_id).data # {}

\* A PATCH /api/rides/:id step whose caller is authenticated and is not the
\* creator of the (existing) ride.
NonCreatorUpdate ==
  /\ req'.kind = "PATCH /api/rides/:id"
  /\ req'.caller # NoUser
  /\ rides[req'.id] # NoRow
  /\ rides[req'.id].creator_id # req'.caller.id

\* C3 as stated: every PATCH /api/rides/:id by an authenticated identity that
\* is not the ride's creator is answered 403 FORBIDDEN and leaves the ride
\* unchanged, whether or not the body is a valid update payload.
C3_ForbiddenWhateverBody ==
  [][NonCreatorUpdate => (IsError(resp', 403, "FORBIDDEN") /\ rides' = rides)]_vars

\* C3 amended: such a request is answered 403 FORBIDDEN when its body passes
\* the route's schema and 400 when it does not; the ride is unchanged in
\* both cases.
C3_ForbiddenOrInvalid ==
  [][NonCreatorUpdate =>
       /\ IF ValidUpdateRideBody(req'.body)
          THEN IsError(resp', 403, "FORBIDDEN")
          ELSE IsError(resp', 400, "ERROR")
       /\ rides' = rides]_vars

\* A non-creator was refused an update that would have changed the ride.
C3_Witness ==
  /\ req.kind = "PATCH /api/rides/:id"
  /\ req.caller # NoUser
  /\ rides[req.id] # NoRow
  /\ rides[req.id].creator_id # req.caller.id
  /\ req.body = [status |-> "completed"]
  /\ rides[req.id].status = "scheduled"
  /\ IsError(resp, 403, "FORBIDDEN")

\* C7: PATCH /api/rides/:id/cancel by the creator of a ride whose status is
\* completed is answered 400 with code BAD_REQUEST and the ride's status
\* stays completed.
C7_CancelCompletedRejected ==
  [][(/\ req'.kind = "PATCH /api/rides/:id/cancel"
      /\ req'.caller # NoUser
      /\ rides[req'.id] # NoRow
      /\ rides[req'.id].creator_id = req'.caller.id
      /\ rides[req'.id].status = "completed")
     => (/\ IsError(resp', 400, "BAD_REQUEST")
         /\ rides'[req'.id] # NoRow
         /\ rides'[req'.id].status = "completed")]_vars

\* The creator's cancel of a completed ride was refused.
C7_Witness ==
  /\ req.kind = "PATCH /api/rides/:id/cancel"
  /\ req.caller # NoUser
  /\ rides[req.id] # NoRow
  /\ rides[req.id].creator_id = req.caller.id
  /\ rides[req.id].status = "completed"
  /\ IsError(resp, 400, "BAD_REQUEST")

\* A POST /api/profiles step that carries the access token of an identity
\* and a body that passes the route's schema.
CreateProfileStep ==
  /\ req'.kind = "POST /api/profiles"
  /\ req'.identity # NoId
  /\ ValidCreateProfileBody(req'.body)

\* C1: for every authenticated identity and every valid create-profile body,
\* POST /api/profiles answers 201 with a profile whose id is the identity's
\* id; a second create by the same identity (its profile is stored) answers
\* 409 CONFLICT and leaves the stored profile unchanged.
C1_CreateThenConflict ==
  [][CreateProfileStep =>
       IF profiles[req'.identity] = NoRow
       THEN IsSuccess(resp', 201) /\ resp'.body.data.id = req'.identity
       ELSE IsError(resp', 409, "CONFLICT") /\ profiles' = profiles]_vars

\* What GET /api/profiles/:id of the request's identity returns as displayName.
ReadDisplayName ==
  LET r == getProfileById(req.identity)
  IN IF r.error # Nil \/ r.data = Nil THEN Undefined ELSE r.data.displayName

\* C5: creating a profile with displayName = d through POST /api/profiles
\* and then reading it by id returns displayName = d, for every valid d.
C5_DisplayNameRoundTrip ==
  [][(CreateProfileStep /\ profiles[req'.identity] = NoRow) =>
       (IsSuccess(resp', 201) /\ ReadDisplayName' = req'.body.displayName)]_vars

\* The profiles that hold a phone number.
ProfilesWithPhone(phone) ==
  {u \in UserIds : profiles[u] # NoRow /\ profiles[u].phone_number = phone}

\* C6: for a phone number with no profile, POST /api/auth/phone answers
\* isNewUser = true, and a POST /api/auth/verify that follows it with the
\* correct 6-digit code answers a profile whose displayName starts with
\* "User " and a session with a non-empty access_token.
C6_NewPhoneSignIn ==
  [][/\ (req'.kind = "POST /api/auth/phone" /\ ProfilesWithPhone(req'.body.phone) = {})
          => (IsSuccess(resp', 200) /\ resp'.body.data.isNewUser = TRUE)
     /\ (/\ req.kind = "POST /api/auth/phone"
         /\ IsSuccess(resp, 200)
         /\ resp.body.data.isNewUser = TRUE
         /\ req'.kind = "POST /api/auth/verify"
         /\ req'.body = [phone |-> req.body.phone, token |-> OtpCode])
          => (/\ IsSuccess(resp', 200)
              /\ StartsWith(Get(resp'.body.data.profile, "displayName"), "User ")
              /\ resp'.body.data.session.access_token # "")]_vars

\* The provider calls that ask for a code, among the calls of a request.
SignInCalls(made) ==
  {made[i] : i \in {n \in DOMAIN made : made[n].op = "auth.signInWithOtp"}}

\* C11: POST /api/auth/phone asks the provider to create an identity, with
\* the placeholder name "User " + the last four characters of the phone,
\* exactly when no profile has that phone number; otherwise it asks for a
\* code without creation.  The isNewUser of the response equals the decision.
C11_CreateExactlyWhenNoProfile ==
  [][req'.kind = "POST /api/auth/phone" =>
       \A c \in SignInCalls(calls') :
         LET noProfile == ProfilesWithPhone(req'.body.phone) = {}
         IN /\ c.args.shouldCreateUser = noProfile
            /\ noProfile => c.args.data.display_name = PlaceholderName(req'.body.phone)
            /\ ~noProfile => c.args.data = Nil
            /\ IsSuccess(resp', 200) => resp'.body.data.isNewUser = noProfile]_vars

\* A POST /api/auth/verify step whose code the provider accepts.
AcceptedVerifyStep ==
  /\ req'.kind = "POST /api/auth/verify"
  /\ ValidVerifyBody(req'.body)
  /\ verifyOtp(req'.body.phone, req'.body.token).error = Nil

\* C12: after the provider accepts the code, POST /api/auth/verify creates
\* the profile of an identity that has none, with role rider, the placeholder
\* name and the phone, and answers isNewUser = true; for an identity with a
\* profile it writes nothing and answers isNewUser = false.  The response
\* carries the identity, the profile and the session's access token, refresh
\* token and expiry.
C12_VerifyCreatesProfileOnce ==
  [][AcceptedVerifyStep =>
       LET phone == req'.body.phone
           u == IdentityIdFor(phone)
           data == resp'.body.data
       IN /\ IsSuccess(resp', 200)
          /\ data.user.id = u
          /\ data.profile = profiles'[u]
          /\ data.session = verifyOtp(phone, req'.body.token).session
          /\ IF profiles[u] = NoRow
             THEN /\ profiles' = [profiles EXCEPT ![u] =
                                    ProfileRow(u, PlaceholderName(phone), phone, "rider")]
                  /\ data.isNewUser = TRUE
             ELSE /\ profiles' = profiles
                  /\ data.isNewUser = FALSE]_vars

\* The calls of a request to `op` that ended with `outcome`.
CallsEnded(made, op, outcome) ==
  {n \in DOMAIN made : made[n].op = op /\ made[n].outcome = outcome}

\* A reply that carries a session.
CarriesSession(r) ==
  /\ "data" \in DOMAIN r.body
  /\ "session" \in DOMAIN r.body.data

\* C13: a provider error on sending the code (such as a phone number it finds
\* invalid) is answered 400; a code the provider rejects on verification is
\* answered 400, with no profile created and no session issued; an exception
\* thrown in either handler is answered 500.
C13_AuthErrorHandling ==
  [][/\ (/\ req'.kind = "POST /api/auth/phone"
          /\ CallsEnded(calls', "auth.signInWithOtp", "error") # {})
          => IsError(resp', 400, "BAD_REQUEST")
     /\ (/\ req'.kind = "POST /api/auth/verify"
          /\ CallsEnded(calls', "auth.verifyOtp", "error") # {})
          => /\ IsError(resp', 400, "BAD_REQUEST")
             /\ profiles' = profiles
             /\ authUsers' = authUsers
             /\ ~CarriesSession(resp')
     /\ (/\ req'.kind \in {"POST /api/auth/phone", "POST /api/auth/verify"}
          /\ \E n \in DOMAIN calls' : calls'[n].outcome = "thrown")
          => IsError(resp', 500, "INTERNAL_ERROR")]_vars

\* A verification with a wrong code for an identity that has no profile yet
\* was answered.
C13_Witness ==
  /\ req.kind = "POST /api/auth/verify"
  /\ req.body.token # OtpCode
  /\ req.body.phone \in otps
  /\ CallsEnded(calls, "auth.verifyOtp", "error") # {}
  /\ profiles[IdentityIdFor(req.body.phone)] = NoRow
  /\ resp.status = 400

\* C14: a GET by id of a ride or a profile that is not stored is answered
\* 404 NOT_FOUND.
C14_AbsentIsNotFound ==
  /\ (req.kind = "GET /api/rides/:id" /\ rides[req.id] = NoRow)
       => IsError(resp, 404, "NOT_FOUND")
  /\ (req.kind = "GET /api/profiles/:id" /\ profiles[req.id] = NoRow)
       => IsError(resp, 404, "NOT_FOUND")

\* The response envelope: a boolean success; data and no error when it is
\* true, an error with code and message and no data when it is false.
Envelope(body) ==
  /\ "success" \in DOMAIN body
  /\ body.success \in BOOLEAN
  /\ body.success => ("data" \in DOMAIN body /\ "error" \notin DOMAIN body)
  /\ ~body.success => /\ "error" \in DOMAIN body
                      /\ {"code", "message"} \subseteq DOMAIN body.error
                      /\ "data" \notin DOMAIN body

\* C15: every response body a route handler or an auth hook sends is an
\* envelope.
C15_EveryBodyIsEnvelope ==
  (resp # NoReply /\ resp.body # NoBody) => Envelope(resp.body)

\* A write to a garage by an authenticated identity that does not own it.
NonOwnerGarageWrite ==
  /\ req'.kind \in {"PUT /api/garages/:id", "DELETE /api/garages/:id"}
  /\ req'.caller # NoId
  /\ garages[req'.id] # NoRow
  /\ garages[req'.id].owner_id # req'.caller

\* C20: a garage is updated or deleted only by a request whose authenticated
\* identity is the garage's owner; such a request from any other identity is
\* rejected and changes nothing.
C20_OnlyOwnerWritesGarage ==
  [][NonOwnerGarageWrite =>
       /\ resp'.status >= 400
       /\ garages' = garages
       /\ motorcycles' = motorcycles]_vars

\* C16: no storage or provider call is made twice by a request, and a request
\* one of whose calls failed ends with an error response (400, 401, 403, 404,
\* 409 or 500), never with a success response.
C16_FailedCallFailsRequest ==
  [][req'.kind \in {"POST /api/auth/phone", "POST /api/auth/verify"} =>
       /\ \A m, n \in DOMAIN calls' : calls'[m].op = calls'[n].op => m = n
       /\ (\E n \in DOMAIN calls' : calls'[n].outcome # "ok")
            => /\ resp'.status \in {400, 401, 403, 404, 409, 500}
               /\ ~resp'.body.success]_vars

\* A request of a ride's creator, to the update or the status endpoint, that
\* names a status of the rides table.
CreatorSetsStatus ==
  /\ req'.kind \in {"PATCH /api/rides/:id", "PATCH /api/rides/:id/status"}
  /\ req'.caller # NoUser
  /\ rides[req'.id] # NoRow
  /\ rides[req'.id].creator_id = req'.caller.id
  /\ DOMAIN req'.body = {"status"}
  /\ req'.body.status \in RideStatuses

\* C17: there is no transition table for the status of a ride: its creator
\* can set any status of the enum (scheduled, in_progress, completed,
\* cancelled) through the update and the status endpoints, whatever the
\* current status, and the ride then has that status.
C17_CreatorSetsAnyStatus ==
  [][CreatorSetsStatus =>
       /\ IsSuccess(resp', 200)
       /\ rides'[req'.id].status = req'.body.status]_vars

\* The accepted verifications of identity u that began while it had no
\* profile, and those of them that have been answered.
FirstVerifications(u) ==
  {s \in Slots : /\ inflight[s].pc # "idle"
                 /\ inflight[s].user # Nil
                 /\ inflight[s].user.id = u
                 /\ inflight[s].fresh}

\* C18: one profile per identity, created on first verification: when
\* concurrent POST /api/auth/verify requests of one identity without a
\* profile have all been answered, exactly one profile row exists for it,
\* exactly one response has isNewUser = true, and every request whose code
\* was accepted has a success response.
C18_ConcurrentVerifyOneProfile ==
  \A u \in UserIds :
    LET first == FirstVerifications(u)
    IN (first # {} /\ \A s \in first : inflight[s].pc = "done") =>
         /\ profiles[u] # NoRow
         /\ \A s \in first : IsSuccess(inflight[s].reply, 200)
         /\ Cardinality({s \in first : inflight[s].reply.body.data.isNewUser}) = 1

\* The profiles that hold a handle.
ProfilesWithHandle(handle) ==
  {u \in UserIds : profiles[u] # NoRow /\ profiles[u].handle = handle}

\* A sign-up with a phone number or a handle that a profile holds, or a
\* profile update, by the profile's identity, with a handle or a phone number
\* that another profile holds.
WouldDuplicate ==
  \/ /\ req'.kind = "POST /api/auth/signup/phone"
     /\ ValidSignupBody(req'.body)
     /\ \/ ProfilesWithPhone(req'.body.phone) # {}
        \/ /\ "handle" \in DOMAIN req'.body
           /\ ProfilesWithHandle(req'.body.handle) # {}
  \/ /\ req'.kind = "PATCH /api/profiles/:id"
     /\ ValidUpdateProfileBody(req'.body)
     /\ req'.identity = req'.id
     /\ profiles[req'.id] # NoRow
     /\ \/ /\ "handle" \in DOMAIN req'.body
           /\ ProfilesWithHandle(req'.body.handle) \ {req'.id} # {}
        \/ /\ "phoneNumber" \in DOMAIN req'.body
           /\ ProfilesWithPhone(req'.body.phoneNumber) \ {req'.id} # {}

\* C19: a request that would give two profiles the same phone number or the
\* same handle is answered 409 CONFLICT, sends no code and leaves the stored
\* profiles as they are.
C19_DuplicateIsConflict ==
  [][WouldDuplicate =>
       /\ IsError(resp', 409, "CONFLICT")
       /\ otps' = otps
       /\ profiles' = profiles]_vars

\* ------------------------------------------------ serverless entry point
\* module.exports = async (req, res) => { if (!app) { app = await
\* createServer(); await app.ready(); } app.server.emit('request', req, res); }
\* Invocations of one process interleave at the two awaits.  A slot holds an
\* invocation until it has handed its request to a server.
Urls == {"/health", "/api/profiles", "/api/rides"}

\* app.server.emit('request', req, res): the request goes to the server the
\* module variable holds at that moment.
Emitted(url, held) ==
  [kind |-> "emit", url |-> url, server |-> held.handle,
   ready |-> held.handle \in held.ready]

\* An invocation starts: with `app` undefined it calls createServer() and
\* awaits it, otherwise it emits the request at once.
HandlerArrives(s, url) ==
  /\ s \in FreeSlots
  /\ IF app.handle = NoId
     THEN /\ inflight' = [inflight EXCEPT ![s] = [pc |-> "createServer", url |-> url]]
          /\ UNCHANGED <<req, resp>>
     ELSE /\ req' = Emitted(url, app)
          /\ resp' = NoReply
          /\ UNCHANGED inflight
  /\ UNCHANGED <<authUsers, otps, profiles, rides, garages, motorcycles, calls, app>>

\* await createServer() resolves: a new server is assigned to `app`, and the
\* invocation awaits its ready().
HandlerCreatedServer(s) ==
  LET r == inflight[s]
      server == app.built + 1
  IN /\ r.pc = "createServer"
     /\ app' = [app EXCEPT !.handle = server, !.built = server]
     /\ inflight' = [inflight EXCEPT ![s] = [pc |-> "ready", url |-> r.url,
                                              server |-> server]]
     /\ UNCHANGED <<authUsers, otps, profiles, rides, garages, motorcycles, req, resp,
                    calls>>

\* await app.ready() resolves for the server this invocation built; the
\* request is emitted.
HandlerServerReady(s) ==
  LET r == inflight[s]
  IN /\ r.pc = "ready"
     /\ app' = [app EXCEPT !.ready = @ \cup {r.server}]
     /\ inflight' = [inflight EXCEPT ![s] = Idle]
     /\ req' = Emitted(r.url, app')
     /\ resp' = NoReply
     /\ UNCHANGED <<authUsers, otps, profiles, rides, garages, motorcycles, calls>>

InitServerless ==
  /\ EmptyDb /\ req = NoRequest /\ resp = NoReply /\ calls = <<>>
  /\ inflight = NoneInFlight /\ app = NoApp

NextServerless ==
  \/ \E s \in Slots, url \in Urls : HandlerArrives(s, url)
  \/ \E s \in Slots : HandlerCreatedServer(s)
  \/ \E s \in Slots : HandlerServerReady(s)

SpecServerless == InitServerless /\ [][NextServerless]_vars

\* ---------------------------------------------------------------------------
\* A step of a dashboard request: its arrival, one of its reads, its reply.
DashboardStep ==
  \/ inflight' # inflight
  \/ req'.kind = "GET /api/garages/:id/dashboard" /\ <<req', resp'>> # <<req, resp>>

DashboardReplySent == \E s \in Slots : inflight[s] # Idle /\ inflight'[s] = Idle

\* C21: getDashboard is read-only and all-or-nothing.  No step of a dashboard
\* request writes to any table, whatever other requests are handled between
\* its reads and in whichever order its two first reads are answered; when
\* any of its reads has failed the reply is the 500 error without data, and a
\* 200 reply comes only after both first reads and carries the whole dashboard.
C21_DashboardReadOnlyAllOrNothing ==
  [][DashboardStep =>
       /\ UNCHANGED <<authUsers, otps, profiles, rides, garages, motorcycles>>
       /\ DashboardReplySent =>
            /\ req'.failed # {} => resp' = Reply(500, INTERNAL_ERROR)
            /\ resp'.status = 200 =>
                 /\ req'.failed = {}
                 /\ {req'.reads[i] : i \in 1..Len(req'.reads)} = {"garages", "motorcycles"}
                 /\ DOMAIN resp'.body.data =
                      {"garageId", "primaryBikeId", "motorcycles", "serviceHistory",
                       "upcomingTasks", "documents"}]_vars

\* The motorcycle list was read first and went through, the garage read came
\* back second with an error (the garage had been deleted): the reply is 500.
C21_Witness ==
  /\ req.kind = "GET /api/garages/:id/dashboard"
  /\ inflight = NoneInFlight
  /\ req.reads = <<"motorcycles", "garages">>
  /\ req.failed = {"garages"}
  /\ garages[req.id] = NoRow
  /\ resp = Reply(500, INTERNAL_ERROR)

\* C22: the server of the serverless entry point is created once per process
\* and reused by every later request, also when several requests arrive
\* before the first initialisation has finished: the process never builds a
\* second server, and every request is emitted on the first one.
C22_ServerBuiltOnce ==
  /\ app.built <= 1
  /\ req.kind = "emit" => req.server = 1

\* The routes that update or delete a profile, and the body schema of each.
ProfileWriteKinds ==
  {"PATCH /api/profiles/:id", "PATCH /api/profiles/:id/location",
   "PATCH /api/profiles/:id/availability", "DELETE /api/profiles/:id"}

PassesProfileSchema(r) ==
  IF r.kind = "PATCH /api/profiles/:id" THEN ValidUpdateProfileBody(r.body)
  ELSE IF r.kind = "PATCH /api/profiles/:id/location" THEN ValidLocationBody(r.body)
  ELSE IF r.kind = "PATCH /api/profiles/:id/availability" THEN ValidAvailabilityBody(r.body)
  ELSE TRUE

\* The identity authenticateUser attaches to the request as request.user: the
\* identity of the bearer token, provided it has a profile row (NoId when the
\* hook replies instead).
AuthenticatedIdentity(r) ==
  IF r.identity # NoId /\ profiles[r.identity] # NoRow THEN r.identity ELSE NoId

\* C23: a profile row is updated or deleted only by a request whose
\* authenticated identity is the profile's id, and a request of these routes
\* that passes its schema and comes from another authenticated identity is
\* answered 403 FORBIDDEN with every profile unchanged.
C23_OnlyOwnerWritesProfile ==
  [][req'.kind \in ProfileWriteKinds =>
       /\ \A u \in UserIds :
            profiles'[u] # profiles[u] =>
              (req'.id = u /\ AuthenticatedIdentity(req') = u)
       /\ ( /\ AuthenticatedIdentity(req') \notin {NoId, req'.id}
            /\ profiles[req'.id] # NoRow
            /\ PassesProfileSchema(req') )
          => (resp' = Reply(403, FORBIDDEN) /\ UNCHANGED profiles)]_vars

\* Another identity asked to move a profile its owner had moved before, and
\* got 403.
C23_Witness ==
  /\ req.kind = "PATCH /api/profiles/:id/location"
  /\ req.identity \notin {NoId, req.id}
  /\ profiles[req.id] # NoRow
  /\ profiles[req.id].latitude # NoLocation
  /\ resp = Reply(403, FORBIDDEN)

\* C24: PATCH /api/rides/:id/complete by the creator on a ride whose status
\* is scheduled or in_progress sets the ride's status to completed.
C24_CompleteSetsCompleted ==
  [][( /\ req'.kind = "PATCH /api/rides/:id/complete"
       /\ rides[req'.id] # NoRow
       /\ UserIdOf(req'.caller) = rides[req'.id].creator_id
       /\ rides[req'.id].status \in {"scheduled", "in_progress"} )
     => rides'[req'.id].status = "completed"]_vars

\* C26: POST /api/rides/:id/book by an authenticated rider who is not the
\* ride's creator succeeds for a scheduled ride, and no book request changes
\* the status of any ride.
C26_BookSucceedsAndKeepsStatus ==
  [][req'.kind = "POST /api/rides/:id/book" =>
       /\ ( /\ req'.caller # NoUser
            /\ rides[req'.id] # NoRow
            /\ UserIdOf(req'.caller) # rides[req'.id].creator_id
            /\ rides[req'.id].status = "scheduled" )
          => resp'.status \in {200, 201}
       /\ \A r \in RideIds :
            rides[r] # NoRow =>
              (rides'[r] # NoRow /\ rides'[r].status = rides[r].status)]_vars

\* C28: each ride's creator_id is the identity that issued its create
\* request.  A ride comes into being only through POST /api/rides, with the
\* creator_id of the authenticated caller whatever the body names, and no
\* later request changes the creator_id of a stored ride.
C28_CreatorIsFixed ==
  [][\A r \in RideIds :
       /\ (rides[r] = NoRow /\ rides'[r] # NoRow) =>
            /\ req'.kind = "POST /api/rides"
            /\ rides'[r].creator_id = UserIdOf(req'.caller)
       /\ (rides[r] # NoRow /\ rides'[r] # NoRow) =>
            rides'[r].creator_id = rides[r].creator_id]_vars

\* The columns the fields of a payload correspond to: a camelCase field
\* stands for its snake_case column, any other field for the column of its
\* name.
ColumnsNamed(payload) ==
  {IF k \in DOMAIN RideFieldMap THEN RideFieldMap[k] ELSE k : k \in DOMAIN payload}

\* updateRide returned: every other ride is as before, the columns outside
\* `free` changed only if the payload names them, each camelCase field was
\* written to its column, and the returned row is the stored row.
PatchedOnly(free) ==
  LET id == req'.id
      payload == req'.body
  IN /\ \A r \in RideIds \ {id} : rides'[r] = rides[r]
     /\ \A c \in DOMAIN rides[id] \ free :
          rides'[id][c] # rides[id][c] => c \in ColumnsNamed(payload)
     /\ \A k \in DOMAIN payload \cap DOMAIN RideFieldMap :
          RideFieldMap[k] \in DOMAIN rides[id] => rides'[id][RideFieldMap[k]] = payload[k]
     /\ resp'.data = rides'[id]

UpdateRideReturned == req'.kind = "RideService.updateRide" /\ resp'.error = Nil

\* C25, as stated: updateRide changes only the columns of ride id that
\* correspond to fields present in the payload (camelCase fields written to
\* their snake_case columns), leaves every other column of that ride and
\* every other ride unchanged, and returns the updated row.
C25_PartialPatch == [][UpdateRideReturned => PatchedOnly({})]_vars

\* C25, amended: the same, except that updated_at is set to the instant of
\* the update whatever the payload holds; and when updateRide throws, no ride
\* is changed.
C25_PartialPatchAndUpdatedAt ==
  [][req'.kind = "RideService.updateRide" =>
       IF resp'.error = Nil
       THEN PatchedOnly({"updated_at"}) /\ rides'[req'.id].updated_at = Now
       ELSE UNCHANGED rides]_vars

\* A ride last written earlier was given a new start through the camelCase
\* field: starts_at holds it, title and status are as before, updated_at is
\* the instant of the update.
C25_Witness ==
  /\ req.kind = "RideService.updateRide"
  /\ req.body = [startsAt |-> Later]
  /\ resp.error = Nil
  /\ resp.data = rides[req.id]
  /\ rides[req.id].starts_at = Later
  /\ rides[req.id].title = Title
  /\ rides[req.id].updated_at = Now

SoftDeleted(table, b) == table[b] # NoRow /\ table[b].deleted_at # Null

\* C27: once a motorcycle's deleted_at is set, no motorcycle request makes it
\* active again: its deleted_at stays set, and a 200 reply of get-by-id or
\* list-by-garage never carries a motorcycle that was soft-deleted before the
\* request.
C27_SoftDeletionIsPermanent ==
  [][/\ \A b \in BikeIds : SoftDeleted(motorcycles, b) => SoftDeleted(motorcycles', b)
     /\ (req'.kind = "GET /api/garages/motorcycles/:id" /\ resp'.status = 200)
          => ~SoftDeleted(motorcycles, resp'.body.data.motorcycle.id)
     /\ (req'.kind = "GET /api/garages/:garageId/motorcycles" /\ resp'.status = 200)
          => \A m \in resp'.body.data.motorcycles : ~SoftDeleted(motorcycles, m.id)]_vars

\* C30: in every dashboard returned (a 200 reply of the dashboard route), a
\* non-null primaryBikeId is the id of a motorcycle of the same dashboard's
\* motorcycles list, and service history is shown only for such a motorcycle.
C30_PrimaryBikeIsListed ==
  [][(DashboardReplySent /\ resp'.status = 200) =>
       LET dashboard == resp'.body.data
           listed == {m.id : m \in dashboard.motorcycles}
       IN /\ dashboard.primaryBikeId # NoId => dashboard.primaryBikeId \in listed
          /\ dashboard.serviceHistory # {} => dashboard.primaryBikeId \in listed]_vars

ListKinds ==
  {"GET /api/profiles", "GET /api/rides", "GET /api/rides/my-rides",
   "GET /api/rides/upcoming"}

\* The rows that match a list request, whatever page is asked for.
MatchingRows(r) ==
  IF r.kind = "GET /api/profiles"
  THEN {u \in UserIds : /\ profiles[u] # NoRow
                        /\ \/ "display_name" \notin DOMAIN r.query
                           \/ ilike(profiles[u].handle, r.query.display_name)
                           \/ ilike(profiles[u].display_name, r.query.display_name)}
  ELSE IF r.kind = "GET /api/rides/my-rides"
  THEN {x \in RideIds : rides[x] # NoRow /\ rides[x].creator_id = r.caller.id}
  ELSE {x \in RideIds : /\ rides[x] # NoRow
                        /\ rides[x].status = "active"
                        /\ NotBefore(rides[x].starts_at, Now)}

ItemsOf(r, reply) ==
  IF r.kind = "GET /api/profiles" THEN reply.body.data.profiles ELSE reply.body.data.rides

\* C29: every 200 reply of a list route (search profiles, search rides,
\* my-rides, upcoming rides), with page defaulting to 1 and limit to 20,
\* carries at most limit items, and its hasMore is true exactly when matching
\* rows exist beyond the page (more than page * limit rows match).
C29_PageHoldsAtMostLimit ==
  (req.kind \in ListKinds /\ resp.status = 200) =>
     /\ Cardinality(ItemsOf(req, resp)) <= LimitOf(req.query)
     /\ resp.body.data.pagination.hasMore
          <=> (Cardinality(MatchingRows(req)) > PageOf(req.query) * LimitOf(req.query))

====
